---- MODULE Spec2Model ----
(***************************************************************************)
(* Model of the Skinport trading bot: the rate gate of SkinportCollector,  *)
(* the fetch operations, the signal engine, the anti-spam alert gate and   *)
(* the scan loop of TradingBot.                                            *)
(*                                                                         *)
(* Time is the wall clock (datetime.now / datetime.utcnow) in whole        *)
(* seconds since the start of the run.  asyncio.sleep(d) is modelled as    *)
(* the clock advancing by exactly d (the earliest moment the sleep can     *)
(* return).  Each object runs on the single asyncio task of the bot.       *)
(***************************************************************************)
EXTENDS Integers, Sequences, FiniteSets, TLC

VARIABLES
    now,                \* the wall clock, seconds
    idled,              \* TRUE when the caller has paused since its last operation
    last_request_time,  \* SkinportCollector.last_request_time: endpoint -> time
    gateLog,            \* history of the gate calls per endpoint (observation only)
    last_alerts,        \* AlertManager.last_alerts: key -> time of the last alert
    alertLog,           \* the should_send_alert calls per key (observation only)
    engine,             \* SignalEngine: its configured thresholds
    engIn,              \* the (item_data, history) pair under evaluation
    engOut,             \* result of SignalEngine.detect_signals on engIn
    trkOut,             \* result of SkinportTracker.analyze_price on engIn
    evalLog,            \* the detect_signals calls of one engine (observation only)
    reqLog,             \* the HTTP requests sent, per endpoint (observation only)
    notBefore,          \* per endpoint: end of the delay the last 429 suggested
    lastFetch,          \* the last fetch operation and what it returned
    tracker_last_request_time, \* SkinportTracker.last_request_time: one time
    tasks,              \* concurrent callers of one gate: task -> its position
    pc,                 \* TradingBot: the position of its task
    running,            \* TradingBot.running
    stats,              \* TradingBot.stats: signals_detected, alerts_sent
    last_scan,          \* run_loop: last_scan
    last_daily_summary, \* run_loop: last_daily_summary
    loopNow,            \* run_loop: the value of now read by the iteration
    filtered_items,     \* collect_and_analyze: filtered_items
    idx,                \* collect_and_analyze: position in filtered_items
    signals_detected,   \* collect_and_analyze: signals_detected
    aidx,               \* collect_and_analyze: position in signals_detected
    db_signals,         \* the rows of the signals table
    scans,              \* number of scans started
    midnight,           \* the time at which the date changes
    scan_interval,      \* run_loop: scan_interval, in minutes
    sendLog,            \* the send_signal calls of the run (observation only)
    procLog,            \* the subjects processed in the run (observation only)
    raised              \* the class of the exception that left run_loop, if any

clockVars == <<now, idled>>
gateVars == <<last_request_time, gateLog>>
alertVars == <<last_alerts, alertLog>>
engVars == <<engine, engIn, engOut, trkOut, evalLog>>
collVars == <<reqLog, notBefore, lastFetch>>
trackerVars == <<tracker_last_request_time>>
taskVars == <<tasks>>
loopVars == <<running, stats, last_scan, last_daily_summary, loopNow, scans,
              midnight, scan_interval>>
scanVars == <<filtered_items, idx, signals_detected, aidx, db_signals, sendLog,
              procLog>>
botVars == <<pc, raised, loopVars, scanVars>>
vars == <<clockVars, gateVars, alertVars, engVars, collVars, trackerVars,
          taskVars, botVars>>

\* what the actions of each specification leave alone
GateFrame == <<alertVars, engVars, collVars, trackerVars, taskVars, botVars>>
AlertFrame == <<gateVars, engVars, collVars, trackerVars, taskVars, pc, raised,
               loopVars, filtered_items, idx, signals_detected, aidx,
               db_signals, procLog>>
EngineFrame == <<clockVars, gateVars, alertVars, collVars, trackerVars,
                taskVars, botVars>>
CollFrame == <<gateLog, alertVars, engVars, taskVars, botVars>>
BotFrame == <<idled, gateLog, alertLog, engVars, lastFetch, trackerVars,
             taskVars>>
ReplayFrame == <<gateVars, alertVars, collVars, trackerVars, taskVars, botVars,
                engIn, engOut, trkOut>>

----------------------------------------------------------------------------
(* Bounds of the model *)

\* number of gate calls (over all endpoints) that one run explores
MaxCalls == 4

\* number of fetch operations that one run of the collector explores
MaxFetches == 2

\* number of should_send_alert calls that one run explores
MaxAlertCalls == 3

\* pauses of the caller between two operations, in seconds: the 2 s pause of
\* the scan, the 10 s of the pacing example, and pauses around the interval.
\* The caller pauses at most once between two operations.
Gaps == {2, 10, 44, 45}

----------------------------------------------------------------------------
(* Dictionaries: a Python dict is a function whose DOMAIN is its key set *)

EmptyDict == << >>

Put(d, k, v) == [x \in (DOMAIN d) \cup {k} |-> IF x = k THEN v ELSE d[x]]

----------------------------------------------------------------------------
(* SignalType members, named by their str(): the form the ledger key embeds *)

UNDERPRICED == "SignalType.UNDERPRICED"

MOMENTUM == "SignalType.MOMENTUM"

TRAP == "SignalType.TRAP"

----------------------------------------------------------------------------
(* Numbers of the signal engine.  Prices are in cents; None (a missing key *)
(* or a JSON null) is -1.  Percentages are exact fractions <<n, d>>, d > 0 *)

None == -1

\* Python truthiness of an optional number: None and 0 are falsy
Falsy(x) == x = None \/ x = 0

Rat(n, d) == <<n, d>>

RLt(a, b) == a[1] * b[2] < b[1] * a[2]

RLe(a, b) == a[1] * b[2] <= b[1] * a[2]

REq(a, b) == a[1] * b[2] = b[1] * a[2]

\* abs left out
RKeep(a) == a

RAbs(a) == IF a[1] < 0 THEN <<0 - a[1], a[2]>> ELSE a

\* min left out: no clamp
RMinLeft(a, b) == a

RMin(a, b) == IF RLe(a, b) THEN a ELSE b

RTimes(a, k) == <<a[1] * k, a[2]>>

RDiv(a, k) == <<a[1], a[2] * k>>

----------------------------------------------------------------------------
(* Signal engine: SignalEngine.calculate_edge and detect_signals *)

\* skinport_fee = 0.12 and slippage = 0.01, in percent of the sale price
SKINPORT_FEE_PCT == 12

SLIPPAGE_PCT == 1

\* the literals of detect_signals: 15 % under the median, 8 % of momentum,
\* the two caps of the confidence, and the estimated spread 0.05
UNDER_MEDIAN_PCT == 15

MOMENTUM_PCT == 8

UNDERPRICED_CAP == 95

MOMENTUM_CAP == 90

SPREAD_PCT == 5

\* (net_profit / buy_price) * 100 with
\* net_profit = (sell - buy) - sell * fee - sell * slippage
calculate_edge(buy_price, sell_price) ==
    Rat(100 * (sell_price - buy_price)
          - SKINPORT_FEE_PCT * sell_price - SLIPPAGE_PCT * sell_price,
        buy_price)

NoResult == [kind |-> "None"]

NotEvaluated == [kind |-> "not evaluated"]

TradingSignal(ty, z, vol, edge, spread, conf) ==
    [kind |-> "signal", signal_type |-> ty, z_score |-> z, volume_24h |-> vol,
     edge_net |-> edge, spread |-> spread, confidence |-> conf]

\* the comparison of line 250, made inclusive
UnderMedianInclusive(price_diff_pct) ==
    RLe(price_diff_pct, Rat(0 - UNDER_MEDIAN_PCT, 1))

\* line 250: price_diff_pct < -15
UnderMedian(price_diff_pct) == RLt(price_diff_pct, Rat(0 - UNDER_MEDIAN_PCT, 1))

\* line 251: edge > self.min_edge
EdgeEnough(eng, edge) == RLt(Rat(eng.min_edge, 1), edge)

\* a volume filter that lets every volume through
VolumeTooLowNever(eng, volume_24h) == FALSE

\* line 216: volume_24h < self.min_volume_24h
VolumeTooLow(eng, volume_24h) == volume_24h < eng.min_volume_24h

\* line 274: volume_24h >= self.min_volume_24h * 1.5
MomentumVolume(eng, volume_24h) == 2 * volume_24h >= 3 * eng.min_volume_24h

detect_signals(eng, item_data, history) ==
    IF history.empty THEN NoResult
    ELSE IF Falsy(item_data.min_price) THEN NoResult
    ELSE IF VolumeTooLow(eng, history.volume_24h)
    THEN TradingSignal(TRAP, Rat(0, 1), history.volume_24h, Rat(0, 1),
                       Rat(0, 1), Rat(0, 1))
    ELSE IF Falsy(history.median_7d) \/ Falsy(history.avg_7d) THEN NoResult
    ELSE
      LET current_price == item_data.min_price
          median_7d == history.median_7d
          avg_7d == history.avg_7d
          avg_24h == history.avg_24h
          volume_24h == history.volume_24h
          price_diff_pct == Rat(100 * (current_price - median_7d), median_7d)
          z_score == RDiv(price_diff_pct, 10)
          spread == Rat(SPREAD_PCT, 100)
          edge == calculate_edge(current_price, median_7d)
      IN  IF /\ UnderMedian(price_diff_pct)
             /\ EdgeEnough(eng, edge)
             /\ volume_24h >= eng.min_volume_24h
          THEN TradingSignal(UNDERPRICED, z_score, volume_24h, edge, spread,
                             RMin(RAbs(price_diff_pct), Rat(UNDERPRICED_CAP, 1)))
          ELSE IF ~Falsy(avg_24h) /\ ~Falsy(avg_7d) /\ avg_24h > avg_7d
          THEN LET momentum_pct == Rat(100 * (avg_24h - avg_7d), avg_7d)
               IN  IF /\ RLt(Rat(MOMENTUM_PCT, 1), momentum_pct)
                      /\ MomentumVolume(eng, volume_24h)
                   THEN TradingSignal(MOMENTUM, z_score, volume_24h, Rat(0, 1),
                            spread,
                            RMin(RTimes(momentum_pct, 5), Rat(MOMENTUM_CAP, 1)))
                   ELSE NoResult
          ELSE NoResult

----------------------------------------------------------------------------
(* Single-skin tracker: SkinportTracker.analyze_price, called with the      *)
(* defaults of TrackerConfig                                                *)

price_drop_threshold == 15

min_edge_percent == 5

Raised(what) == [kind |-> "raise", error |-> what]

PriceAlert(drop, edge, vol) ==
    [kind |-> "alert", drop_percent |-> drop, edge_percent |-> edge,
     volume_24h |-> vol]

analyze_price(current_price, history) ==
    IF history.empty THEN NoResult
    ELSE IF Falsy(history.median_7d) THEN NoResult
    ELSE IF current_price = None THEN Raised("TypeError")
    ELSE
      LET median_7d == history.median_7d
          drop_percent == Rat(100 * (median_7d - current_price), median_7d)
      IN  IF RLt(drop_percent, Rat(0, 1)) THEN NoResult
          ELSE IF current_price = 0 THEN Raised("ZeroDivisionError")
          ELSE
            LET edge_percent ==
                    Rat(100 * (median_7d - current_price)
                          - SKINPORT_FEE_PCT * median_7d, current_price)
            IN  IF /\ RLe(Rat(price_drop_threshold, 1), drop_percent)
                   /\ RLe(Rat(min_edge_percent, 1), edge_percent)
                THEN PriceAlert(drop_percent, edge_percent, history.volume_24h)
                ELSE NoResult

----------------------------------------------------------------------------
(* The evaluations, on inputs drawn from the sets below.  At each of these  *)
(* inputs the floating-point comparisons of the code agree with the exact  *)
(* fractions of the model.                                                 *)

\* current prices: none, zero, and prices 97.5 %, 16 %, 15 %, 14 % and about
\* 17.19 % under the medians below, and one above them
CurrentPrices == {None, 0, 50, 1680, 1700, 1720, 2650, 4000}

Medians7d == {None, 0, 2000, 3200}

Avgs7d == {None, 0, 2500}

\* 24 h means 0 %, 8 %, 9 % and 20 % above the 7-day mean
Avgs24h == {None, 2500, 2700, 2725, 3000}

Volumes24h == {0, 2, 4, 5, 7, 8, 15}

\* MIN_EDGE_NET; 3.0 is the default
MinEdges == {2, 3}

\* MIN_VOLUME_24H
min_volume_24h == 5

EmptyHistory ==
    [empty |-> TRUE, volume_24h |-> 0, median_7d |-> None, avg_7d |-> None,
     avg_24h |-> None]

Histories ==
    {EmptyHistory} \cup
    [empty : {FALSE}, volume_24h : Volumes24h, median_7d : Medians7d,
     avg_7d : Avgs7d, avg_24h : Avgs24h]

EngineInputs == [item_data : [min_price : CurrentPrices], history : Histories]

----------------------------------------------------------------------------
(* The state after construction of each object *)

\* the run starts at time 0
ClockInit ==
    /\ now = 0
    /\ idled = FALSE

\* SkinportCollector.__init__: self.last_request_time = {}
GateFresh ==
    /\ last_request_time = EmptyDict
    /\ gateLog = EmptyDict

\* AlertManager.__init__: self.last_alerts = {}
AlertFresh ==
    /\ last_alerts = EmptyDict
    /\ alertLog = EmptyDict

\* SignalEngine.__init__ with its defaults, nothing evaluated
EngineIdle ==
    /\ engine = [min_volume_24h |-> min_volume_24h, min_edge |-> 3]
    /\ engIn = [item_data |-> [min_price |-> None], history |-> EmptyHistory]
    /\ engOut = NotEvaluated
    /\ trkOut = NotEvaluated
    /\ evalLog = << >>

\* no request sent yet; SkinportTracker.__init__: self.last_request_time = None
CollFresh ==
    /\ reqLog = EmptyDict
    /\ notBefore = EmptyDict
    /\ lastFetch = [op |-> "none"]
    /\ tracker_last_request_time = None

\* no concurrent caller
NoTasks ==
    tasks = EmptyDict

\* the last exception that reached run_loop: its class (Exception, or
\* BaseException for KeyboardInterrupt and CancelledError) and whether the
\* loop caught it
Exc(class, caught) == [class |-> class, caught |-> caught]

NoException == Exc("none", FALSE)

\* TradingBot.__init__: not running, the counters at zero
ZeroStats == [signals_detected |-> 0, alerts_sent |-> 0]

BotFresh ==
    /\ pc = "initialize"
    /\ running = FALSE
    /\ stats = ZeroStats
    /\ last_scan = 0
    /\ last_daily_summary = 0
    /\ loopNow = 0
    /\ scans = 0
    /\ midnight = 0
    /\ scan_interval = 60
    /\ filtered_items = << >>
    /\ idx = 0
    /\ signals_detected = << >>
    /\ aidx = 0
    /\ db_signals = << >>
    /\ sendLog = << >>
    /\ procLog = << >>
    /\ raised = NoException

\* signal_engine.detect_signals(item_data, history)
DetectSignals ==
    /\ engOut = NotEvaluated
    /\ engOut' = detect_signals(engine, engIn.item_data, engIn.history)
    /\ UNCHANGED <<engine, engIn, trkOut, evalLog>>
    /\ UNCHANGED EngineFrame

\* tracker.analyze_price(skin_name, current_price, history, ...)
AnalyzePrice ==
    /\ trkOut = NotEvaluated
    /\ trkOut' = analyze_price(engIn.item_data.min_price, engIn.history)
    /\ UNCHANGED <<engine, engIn, engOut, evalLog>>
    /\ UNCHANGED EngineFrame

EngineInit ==
    /\ ClockInit
    /\ GateFresh
    /\ AlertFresh
    /\ CollFresh
    /\ NoTasks
    /\ engine \in [min_volume_24h : {min_volume_24h}, min_edge : MinEdges]
    /\ engIn \in EngineInputs
    /\ engOut = NotEvaluated
    /\ trkOut = NotEvaluated
    /\ evalLog = << >>
    /\ BotFresh

EngineNext == DetectSignals \/ AnalyzePrice

SpecEngine == EngineInit /\ [][EngineNext]_vars

----------------------------------------------------------------------------
(* Repeated evaluations by one SignalEngine, at different times *)

\* number of detect_signals calls that one run explores
MaxEvaluations == 3

\* inputs of the repeated evaluations: one of low volume, one under the
\* median, one of rising means and one without a 7-day median
ReplayInputs ==
    {[item_data |-> [min_price |-> p],
      history |-> [empty |-> FALSE, volume_24h |-> v, median_7d |-> m,
                   avg_7d |-> 2500, avg_24h |-> a]] :
        <<p, v, m, a>> \in {<<2650, 2, 3200, 2500>>, <<2650, 15, 3200, 2500>>,
                            <<2650, 15, 2000, 3000>>, <<2650, 15, None, 2500>>}}

\* timestamp=now in the TradingSignal that detect_signals builds
Stamped(result, t) ==
    IF result.kind = "signal"
    THEN [kind |-> "signal", signal_type |-> result.signal_type,
          z_score |-> result.z_score, volume_24h |-> result.volume_24h,
          edge_net |-> result.edge_net, spread |-> result.spread,
          confidence |-> result.confidence, timestamp |-> t]
    ELSE result

\* an engine that remembers its inputs and reports each of them once
EvaluationOnce(eng, input, t, prior) ==
    IF \E i \in 1..Len(prior) : prior[i].input = input
    THEN NoResult
    ELSE Stamped(detect_signals(eng, input.item_data, input.history), t)

\* signal_engine.detect_signals(item_data, history) at time t, after the
\* calls in prior: the method reads its arguments, the thresholds and the
\* clock, and assigns no attribute of the engine
Evaluation(eng, input, t, prior) ==
    Stamped(detect_signals(eng, input.item_data, input.history), t)

Evaluate ==
    /\ Len(evalLog) < MaxEvaluations
    /\ \E input \in ReplayInputs :
        evalLog' = Append(evalLog,
                     [input |-> input, at |-> now,
                      out |-> Evaluation(engine, input, now, evalLog)])
    /\ idled' = FALSE
    /\ UNCHANGED <<now, engine>>
    /\ UNCHANGED ReplayFrame

\* time passes between two evaluations
ReplayIdle(d) ==
    /\ ~idled
    /\ Len(evalLog) < MaxEvaluations
    /\ idled' = TRUE
    /\ now' = now + d
    /\ UNCHANGED <<engine, evalLog>>
    /\ UNCHANGED ReplayFrame

ReplayInit ==
    /\ ClockInit
    /\ GateFresh
    /\ AlertFresh
    /\ CollFresh
    /\ NoTasks
    /\ engine \in [min_volume_24h : {min_volume_24h}, min_edge : MinEdges]
    /\ engIn = [item_data |-> [min_price |-> None], history |-> EmptyHistory]
    /\ engOut = NotEvaluated
    /\ trkOut = NotEvaluated
    /\ evalLog = << >>
    /\ BotFresh

ReplayNext ==
    \/ Evaluate
    \/ \E d \in Gaps : ReplayIdle(d)

SpecReplay == ReplayInit /\ [][ReplayNext]_vars

----------------------------------------------------------------------------
(* Rate gate: SkinportCollector._rate_limit_wait *)

RATE_LIMIT_DELAY == 45

Endpoints == {"/items", "/sales/history"}

\* a gate that never sleeps
WaitTimeNoSleep(lrt, endpoint, t) == 0

\* a gate that sleeps the whole delay on top of the time already elapsed
WaitTimeOnTop(lrt, endpoint, t) ==
    IF endpoint \in DOMAIN lrt
    THEN RATE_LIMIT_DELAY + (t - lrt[endpoint])
    ELSE 0

\* the sleep of one call entered at t (0 when the call does not sleep)
WaitTime(lrt, endpoint, t) ==
    IF endpoint \in DOMAIN lrt
    THEN LET elapsed == t - lrt[endpoint]
         IN  IF elapsed < RATE_LIMIT_DELAY
             THEN RATE_LIMIT_DELAY - elapsed
             ELSE 0
    ELSE 0

\* the time written to last_request_time[endpoint] by a call that was
\* entered at t and returns at granted: line 83 stores the `now` of line 75
RecordedTime(t, granted) == t

\* a collector that forgets the other endpoints when it records one
GateRecordOnly(lrt, endpoint, t) == [x \in {endpoint} |-> t]

\* the dictionary after one call
GateRecord(lrt, endpoint, t) ==
    Put(lrt, endpoint, RecordedTime(t, t + WaitTime(lrt, endpoint, t)))

\* the moment one call returns
GateGrant(lrt, endpoint, t) == t + WaitTime(lrt, endpoint, t)

NoCall == [enter |-> -1, grant |-> -1]

\* observation of a call: the number of calls so far, the previous and the
\* most recent call with their entry and grant times
LogCall(log, endpoint, t, granted) ==
    LET old == IF endpoint \in DOMAIN log
               THEN log[endpoint]
               ELSE [n |-> 0, prev |-> NoCall, last |-> NoCall]
    IN  Put(log, endpoint,
            [n |-> old.n + 1, prev |-> old.last,
             last |-> [enter |-> t, grant |-> granted]])

Calls(log, endpoint) == IF endpoint \in DOMAIN log THEN log[endpoint].n ELSE 0

RECURSIVE SumCalls(_, _)
SumCalls(log, keys) ==
    IF keys = {} THEN 0
    ELSE LET k == CHOOSE x \in keys : TRUE
         IN  log[k].n + SumCalls(log, keys \ {k})

TotalCalls(log) == SumCalls(log, DOMAIN log)

\* one call of _rate_limit_wait(endpoint), from entry to return
RateLimitWait(endpoint) ==
    /\ TotalCalls(gateLog) < MaxCalls
    /\ idled' = FALSE
    /\ now' = GateGrant(last_request_time, endpoint, now)
    /\ last_request_time' = GateRecord(last_request_time, endpoint, now)
    /\ gateLog' = LogCall(gateLog, endpoint, now,
                          GateGrant(last_request_time, endpoint, now))
    /\ UNCHANGED GateFrame

\* the caller does something else for d seconds between two calls
GateIdle(d) ==
    /\ ~idled
    /\ TotalCalls(gateLog) < MaxCalls
    /\ idled' = TRUE
    /\ now' = now + d
    /\ UNCHANGED gateVars
    /\ UNCHANGED GateFrame

GateInit ==
    /\ ClockInit
    /\ GateFresh
    /\ AlertFresh
    /\ EngineIdle
    /\ CollFresh
    /\ NoTasks
    /\ BotFresh

GateNext ==
    \/ \E e \in Endpoints : RateLimitWait(e)
    \/ \E d \in Gaps : GateIdle(d)

SpecGate == GateInit /\ [][GateNext]_vars

----------------------------------------------------------------------------
(* Fetch operations: SkinportCollector.get_items and get_sales_history *)

\* asyncio.sleep(60) of get_items after a 429
ITEMS_THROTTLE_SLEEP == 60

\* int(response.headers.get('Retry-After', 120)) of get_sales_history
HISTORY_DEFAULT_RETRY_AFTER == 120

\* a Retry-After header: absent, one that int() rejects (an HTTP date), or
\* a number of seconds
NoHeader == None

BadHeader == -2

RetryAfters == {NoHeader, BadHeader, 30, 120}

\* the /items listing of the provider
Listing ==
    << [market_hash_name |-> "AK-47", min_price |-> 1680, quantity |-> 50],
       [market_hash_name |-> "AWP", min_price |-> 2650, quantity |-> 10],
       [market_hash_name |-> "Karambit", min_price |-> 40000, quantity |-> 3] >>

\* two aggregates as /sales/history returns them
HistoryLow ==
    [empty |-> FALSE, volume_24h |-> 2, median_7d |-> 3200, avg_7d |-> 2500,
     avg_24h |-> 2500]

HistoryLiquid ==
    [empty |-> FALSE, volume_24h |-> 15, median_7d |-> 2000, avg_7d |-> 2500,
     avg_24h |-> 2500]

\* a JSON body: a list or an object (items holds its elements, the object
\* itself for a dict), another JSON value, or a body that json() rejects
Body(shape, items) == [shape |-> shape, items |-> items]

NoBody == Body("invalid", << >>)

\* a response: status 0 stands for a request that raised
Response(status, retry_after, body) ==
    [status |-> status, retry_after |-> retry_after, body |-> body]

ItemsResponses ==
    {Response(200, NoHeader, b) :
        b \in {Body("list", Listing), Body("list", << >>), NoBody}}
    \cup {Response(429, ra, NoBody) : ra \in RetryAfters}
    \cup {Response(500, NoHeader, NoBody), Response(0, NoHeader, NoBody)}

HistoryResponses ==
    {Response(200, NoHeader, b) :
        b \in {Body("list", <<HistoryLiquid>>),
               Body("list", <<HistoryLow, HistoryLiquid>>),
               Body("list", <<Body("list", <<HistoryLow>>)>>),
               Body("list", << >>), Body("dict", <<HistoryLow>>),
               Body("other", << >>), NoBody}}
    \cup {Response(429, ra, NoBody) : ra \in RetryAfters}
    \cup {Response(500, NoHeader, NoBody), Response(0, NoHeader, NoBody)}

Request(at, gated, resp) ==
    [at |-> at, gated |-> gated, status |-> resp.status,
     retry_after |-> resp.retry_after, body |-> resp.body]

ItemsResult(items) == [kind |-> "items", items |-> items]

HistoryResult(history) == [kind |-> "history", history |-> history]

\* what a fetch did: its result, the time it returns, the rate-limit map it
\* leaves, the requests it sent and the time it slept after a 429
Fetched(result, end, lrt, requests, slept) ==
    [result |-> result, end |-> end, lrt |-> lrt, requests |-> requests,
     slept |-> slept, raised |-> FALSE]

\* the request raised (status 0) or json() raised on the body of a 200
Raises(resp) ==
    \/ resp.status = 0
    \/ resp.status = 200 /\ resp.body.shape = "invalid"

\* a fetch without its handler
FetchCatchesNothing(class) == FALSE

\* `except Exception as e` around the request of every fetch operation
FetchCatches(class) == class = "Exception"

\* the fetch f as its caller sees it when the body of its try raised
Excepted(f, raised_inside) ==
    IF raised_inside /\ ~FetchCatches("Exception")
    THEN [f EXCEPT !.raised = TRUE]
    ELSE f

\* the body of a 200 answer of /items: data, or [] when json() raises
ItemsData(resp) ==
    IF resp.body.shape = "invalid" THEN << >> ELSE resp.body.items

get_items(lrt, t, r1, r2) ==
    LET granted == GateGrant(lrt, "/items", t)
        lrt2 == GateRecord(lrt, "/items", t)
        first == Request(granted, TRUE, r1)
    IN  IF r1.status = 200
        THEN Fetched(ItemsResult(ItemsData(r1)), granted, lrt2, <<first>>, 0)
        ELSE IF r1.status = 429
        THEN LET retried == granted + ITEMS_THROTTLE_SLEEP
                 second == Request(retried, FALSE, r2)
             IN  Fetched(ItemsResult(IF r2.status = 200 THEN ItemsData(r2)
                                     ELSE << >>),
                         retried, lrt2, <<first, second>>, ITEMS_THROTTLE_SLEEP)
        ELSE Fetched(ItemsResult(<< >>), granted, lrt2, <<first>>, 0)

\* the normalisation of a 200 answer of /sales/history
HistoryData(resp) ==
    IF resp.body.shape = "invalid" THEN NoResult
    ELSE IF resp.body.shape = "list" /\ Len(resp.body.items) > 0
    THEN HistoryResult(resp.body.items[1])
    ELSE IF resp.body.shape = "dict" THEN HistoryResult(resp.body.items[1])
    ELSE NoResult

get_sales_history(lrt, t, r) ==
    LET granted == GateGrant(lrt, "/sales/history", t)
        lrt2 == GateRecord(lrt, "/sales/history", t)
        req == Request(granted, TRUE, r)
    IN  IF r.status = 200
        THEN Fetched(HistoryData(r), granted, lrt2, <<req>>, 0)
        ELSE IF r.status = 429
        THEN IF r.retry_after = BadHeader
             THEN Fetched(NoResult, granted, lrt2, <<req>>, 0)
             ELSE LET retry_after == IF r.retry_after = NoHeader
                                     THEN HISTORY_DEFAULT_RETRY_AFTER
                                     ELSE r.retry_after
                  IN  Fetched(NoResult, granted + retry_after, lrt2, <<req>>,
                              retry_after)
        ELSE Fetched(NoResult, granted, lrt2, <<req>>, 0)

\* observation: the end of the delay suggested by the answer to a request
\* (unchanged when the answer is no 429 or carries no number of seconds)
Suggested(nb, req) ==
    IF req.status = 429 /\ req.retry_after >= 0
    THEN req.at + req.retry_after
    ELSE nb

RECURSIVE LogRequests(_, _, _)
\* observation: the requests appended to the log of one endpoint, each with
\* the end of the suggested delay in force when it was sent
LogRequests(log, nb, requests) ==
    IF requests = << >> THEN [log |-> log, nb |-> nb]
    ELSE LET req == Head(requests)
             entry == [at |-> req.at, gated |-> req.gated,
                       status |-> req.status, notBefore |-> nb]
         IN  LogRequests(Append(log, entry), Suggested(nb, req), Tail(requests))

Logged(endpoint, requests) ==
    LogRequests(IF endpoint \in DOMAIN reqLog THEN reqLog[endpoint] ELSE << >>,
                IF endpoint \in DOMAIN notBefore THEN notBefore[endpoint] ELSE 0,
                requests)

Fetches == IF lastFetch.op = "none" THEN 0 ELSE lastFetch.n

\* the effect of one fetch on the collector and on the observations
Fetch(op, endpoint, f) ==
    /\ Fetches < MaxFetches
    /\ now' = f.end
    /\ idled' = FALSE
    /\ last_request_time' = f.lrt
    /\ reqLog' = Put(reqLog, endpoint, Logged(endpoint, f.requests).log)
    /\ notBefore' = Put(notBefore, endpoint, Logged(endpoint, f.requests).nb)
    /\ lastFetch' = [op |-> op, n |-> Fetches + 1, result |-> f.result,
                     entered |-> now, requests |-> Len(f.requests),
                     slept |-> f.slept, sent |-> f.requests,
                     raised |-> f.raised]
    /\ UNCHANGED tracker_last_request_time
    /\ UNCHANGED CollFrame

\* await collector.get_items()
GetItems ==
    \E r1 \in ItemsResponses :
        \E r2 \in IF r1.status = 429 THEN ItemsResponses ELSE {r1} :
            Fetch("get_items", "/items",
                  Excepted(get_items(last_request_time, now, r1, r2),
                           Raises(r1) \/ (r1.status = 429 /\ Raises(r2))))

\* await collector.get_sales_history(name)
GetSalesHistory ==
    \E r \in HistoryResponses :
        Fetch("get_sales_history", "/sales/history",
              Excepted(get_sales_history(last_request_time, now, r),
                       Raises(r)))

\* SkinportTracker._rate_limit_wait: one last_request_time for every URL
TrackerWaitTime(lrt, t) ==
    IF lrt # None
    THEN LET elapsed == t - lrt
         IN  IF elapsed < RATE_LIMIT_DELAY
             THEN RATE_LIMIT_DELAY - elapsed
             ELSE 0
    ELSE 0

TrackerGrant(lrt, t) == t + TrackerWaitTime(lrt, t)

\* int(response.headers.get('Retry-After', 300)) of get_item_price
PRICE_DEFAULT_RETRY_AFTER == 300

\* int(response.headers.get('Retry-After', 60)) of the tracker's history
TRACKER_HISTORY_DEFAULT_RETRY_AFTER == 60

\* the skin the tracker follows: one of the listing, one that is not listed
SkinNames == {"AWP", "Glock-18"}

PriceResult(price) == [kind |-> "price", price |-> price]

RECURSIVE FindPrice(_, _)
\* the loop over the listing: min_price of the first item of that name
FindPrice(items, skin_name) ==
    IF items = << >> THEN NoResult
    ELSE IF Head(items).market_hash_name = skin_name
    THEN PriceResult(Head(items).min_price)
    ELSE FindPrice(Tail(items), skin_name)

\* what a tracker fetch does after a 429 whose Retry-After defaults to dflt
TrackerThrottled(granted, t, req, dflt) ==
    IF req.retry_after = BadHeader
    THEN Fetched(NoResult, granted, t, <<req>>, 0)
    ELSE LET retry_after == IF req.retry_after = NoHeader THEN dflt
                            ELSE req.retry_after
         IN  Fetched(NoResult, granted + retry_after, t, <<req>>, retry_after)

\* SkinportTracker.get_item_price(skin_name) entered at t
get_item_price(lrt, t, r, skin_name) ==
    LET granted == TrackerGrant(lrt, t)
        req == Request(granted, TRUE, r)
    IN  IF r.status = 200
        THEN Fetched(IF r.body.shape = "invalid" THEN NoResult
                     ELSE FindPrice(r.body.items, skin_name),
                     granted, t, <<req>>, 0)
        ELSE IF r.status = 429
        THEN TrackerThrottled(granted, t, req, PRICE_DEFAULT_RETRY_AFTER)
        ELSE Fetched(NoResult, granted, t, <<req>>, 0)

\* SkinportTracker.get_sales_history(skin_name) entered at t
tracker_get_sales_history(lrt, t, r) ==
    LET granted == TrackerGrant(lrt, t)
        req == Request(granted, TRUE, r)
    IN  IF r.status = 200
        THEN Fetched(HistoryData(r), granted, t, <<req>>, 0)
        ELSE IF r.status = 429
        THEN TrackerThrottled(granted, t, req,
                              TRACKER_HISTORY_DEFAULT_RETRY_AFTER)
        ELSE Fetched(NoResult, granted, t, <<req>>, 0)

\* the effect of one fetch of the tracker; its requests are observed under
\* the name of the operation
TrackerFetch(op, f) ==
    /\ Fetches < MaxFetches
    /\ now' = f.end
    /\ idled' = FALSE
    /\ tracker_last_request_time' = f.lrt
    /\ reqLog' = Put(reqLog, op, Logged(op, f.requests).log)
    /\ notBefore' = Put(notBefore, op, Logged(op, f.requests).nb)
    /\ lastFetch' = [op |-> op, n |-> Fetches + 1, result |-> f.result,
                     entered |-> now, requests |-> Len(f.requests),
                     slept |-> f.slept, sent |-> f.requests,
                     raised |-> f.raised]
    /\ UNCHANGED last_request_time
    /\ UNCHANGED CollFrame

\* await tracker.get_item_price(skin_name)
GetItemPrice ==
    \E r \in ItemsResponses, skin_name \in SkinNames :
        TrackerFetch("get_item_price",
                     Excepted(get_item_price(tracker_last_request_time, now, r,
                                             skin_name),
                              Raises(r)))

\* await tracker.get_sales_history(skin_name)
TrackerGetSalesHistory ==
    \E r \in HistoryResponses :
        TrackerFetch("tracker.get_sales_history",
                     Excepted(tracker_get_sales_history(
                                  tracker_last_request_time, now, r),
                              Raises(r)))

\* pauses of the caller between two fetches
CollGaps == {2, 45}

CollIdle(d) ==
    /\ ~idled
    /\ Fetches < MaxFetches
    /\ idled' = TRUE
    /\ now' = now + d
    /\ UNCHANGED <<last_request_time, collVars, trackerVars>>
    /\ UNCHANGED CollFrame

CollInit ==
    /\ ClockInit
    /\ GateFresh
    /\ AlertFresh
    /\ EngineIdle
    /\ CollFresh
    /\ NoTasks
    /\ BotFresh

CollNext ==
    \/ GetItems
    \/ GetSalesHistory
    \/ GetItemPrice
    \/ TrackerGetSalesHistory
    \/ \E d \in CollGaps : CollIdle(d)

SpecCollector == CollInit /\ [][CollNext]_vars

----------------------------------------------------------------------------
(* Alert gate: AlertManager.should_send_alert *)

Items == {"AK-47", "AWP"}

min_alert_interval_minutes == 30

\* timedelta(minutes = min_alert_interval_minutes), in seconds
min_alert_interval == min_alert_interval_minutes * 60

\* pauses between two calls of the alert gate, in seconds
AlertGaps == {1, min_alert_interval - 1, min_alert_interval}

\* key = f"{signal.item_name}_{signal.signal_type}"
AlertKey(item_name, signal_type) == item_name \o "_" \o signal_type

\* a gate that lets every alert through
ShouldSendAlways(la, key, t) == TRUE

\* a gate that still suppresses at an elapsed time equal to the interval
ShouldSendStrict(la, key, t) ==
    ~(key \in DOMAIN la /\ t - la[key] <= min_alert_interval)

\* the result of should_send_alert at time t with ledger la
ShouldSend(la, key, t) ==
    ~(key \in DOMAIN la /\ t - la[key] < min_alert_interval)

\* a gate that never writes its ledger
LedgerKept(la, key, t) == la

\* a gate that writes its ledger on a suppressed attempt too
LedgerAlways(la, key, t) == Put(la, key, t)

\* the ledger after the call: written only on the path that returns True
LedgerAfter(la, key, t) ==
    IF ShouldSend(la, key, t) THEN Put(la, key, t) ELSE la

\* observation of one call: its time, its result, and the entry of its key
\* before the call (had = FALSE, prev = -1 when there was none)
LogAlert(log, la, key, t) ==
    LET old == IF key \in DOMAIN log THEN log[key] ELSE << >>
        rec == [at |-> t,
                result |-> ShouldSend(la, key, t),
                had |-> key \in DOMAIN la,
                prev |-> IF key \in DOMAIN la THEN la[key] ELSE -1]
    IN  Put(log, key, Append(old, rec))

RECURSIVE SumLens(_, _)
SumLens(log, keys) ==
    IF keys = {} THEN 0
    ELSE LET k == CHOOSE x \in keys : TRUE
         IN  Len(log[k]) + SumLens(log, keys \ {k})

AlertCalls(log) == SumLens(log, DOMAIN log)

\* one call of should_send_alert(signal) at the current time
ShouldSendAlert(item_name, signal_type) ==
    LET key == AlertKey(item_name, signal_type)
    IN  /\ AlertCalls(alertLog) < MaxAlertCalls
        /\ last_alerts' = LedgerAfter(last_alerts, key, now)
        /\ alertLog' = LogAlert(alertLog, last_alerts, key, now)
        /\ idled' = FALSE
        /\ UNCHANGED <<now, sendLog>>
        /\ UNCHANGED AlertFrame

\* alerts.py line 284: signal.signal_type == 'TRAP'
IsTrapString(signal_type) == signal_type = "TRAP"

\* outcome of a delivery on one channel: sent, or refused or an exception
Deliveries == {"sent", "failed"}

\* one call of AlertManager.send_signal(signal) with both channels
\* configured: the TRAP test, the gate, then the two deliveries
ManagerSendSignal(item_name, signal_type) ==
    LET key == AlertKey(item_name, signal_type)
        gated == ~IsTrapString(signal_type)
        passed == gated /\ ShouldSend(last_alerts, key, now)
    IN  /\ AlertCalls(alertLog) < MaxAlertCalls
        /\ Len(sendLog) < MaxAlertCalls
        /\ \E discord \in Deliveries, telegram \in Deliveries :
              sendLog' = Append(sendLog,
                           [item_name |-> item_name,
                            signal_type |-> signal_type,
                            at |-> now, scan |-> 0, gated |-> gated,
                            dispatched |-> passed,
                            success |-> passed /\ (discord = "sent"
                                                   \/ telegram = "sent")])
        /\ last_alerts' = IF gated THEN LedgerAfter(last_alerts, key, now)
                          ELSE last_alerts
        /\ alertLog' = IF gated THEN LogAlert(alertLog, last_alerts, key, now)
                       ELSE alertLog
        /\ idled' = FALSE
        /\ UNCHANGED now
        /\ UNCHANGED AlertFrame

\* time passes between two calls
AlertIdle(d) ==
    /\ ~idled
    /\ AlertCalls(alertLog) < MaxAlertCalls
    /\ idled' = TRUE
    /\ now' = now + d
    /\ UNCHANGED <<alertVars, sendLog>>
    /\ UNCHANGED AlertFrame

AlertInit ==
    /\ ClockInit
    /\ GateFresh
    /\ AlertFresh
    /\ EngineIdle
    /\ CollFresh
    /\ NoTasks
    /\ BotFresh

AlertNext ==
    \/ \E i \in Items, ty \in {UNDERPRICED, MOMENTUM} : ShouldSendAlert(i, ty)
    \/ \E i \in Items, ty \in {UNDERPRICED, TRAP} : ManagerSendSignal(i, ty)
    \/ \E d \in AlertGaps : AlertIdle(d)

SpecAlert == AlertInit /\ [][AlertNext]_vars

----------------------------------------------------------------------------
(* Concurrent callers of AlertManager.send_signal on one manager.  A task   *)
(* runs without interruption between two awaits: from its entry to the     *)
(* await of the Discord delivery (the TRAP test and should_send_alert, a    *)
(* plain function, lie in between), then to the await of the Telegram      *)
(* delivery, then to its return.  The tasks are started in the order of    *)
(* their numbers; the time the deliveries take is not counted.             *)

\* number of concurrent tasks
MaxTasks == 3

Tasks == 1..MaxTasks

TaskFrame == <<gateVars, alertLog, engVars, collVars, trackerVars, botVars>>

NotStarted == [pc |-> "start"]

\* send_signal entered at the current time: lines 283-290 run in one piece
EnterSendSignal(t, item_name, signal_type) ==
    LET key == AlertKey(item_name, signal_type)
        gated == ~IsTrapString(signal_type)
        passed == gated /\ ShouldSend(last_alerts, key, now)
    IN  /\ tasks[t].pc = "start"
        /\ \A u \in 1..(t - 1) : tasks[u].pc # "start"
        /\ last_alerts' = IF gated THEN LedgerAfter(last_alerts, key, now)
                          ELSE last_alerts
        /\ tasks' = [tasks EXCEPT ![t] =
                        [pc |-> IF passed THEN "discord" ELSE "done",
                         key |-> key, at |-> now, passed |-> passed,
                         success |-> FALSE]]
        /\ idled' = FALSE
        /\ UNCHANGED now
        /\ UNCHANGED TaskFrame

\* the await of self.discord.send_signal(signal) returns or raises
DiscordDelivered(t) ==
    /\ tasks[t].pc = "discord"
    /\ \E discord \in Deliveries :
          tasks' = [tasks EXCEPT ![t].pc = "telegram",
                                 ![t].success = (discord = "sent")]
    /\ UNCHANGED <<now, idled, last_alerts>>
    /\ UNCHANGED TaskFrame

\* the await of self.telegram.send_signal(signal) returns or raises, and
\* send_signal returns success
TelegramDelivered(t) ==
    /\ tasks[t].pc = "telegram"
    /\ \E telegram \in Deliveries :
          tasks' = [tasks EXCEPT ![t].pc = "done",
                                 ![t].success = (@ \/ telegram = "sent")]
    /\ UNCHANGED <<now, idled, last_alerts>>
    /\ UNCHANGED TaskFrame

\* time passes before the next task is started
TaskIdle(d) ==
    /\ ~idled
    /\ \E t \in Tasks : tasks[t].pc = "start"
    /\ idled' = TRUE
    /\ now' = now + d
    /\ UNCHANGED <<last_alerts, tasks>>
    /\ UNCHANGED TaskFrame

AlertTasksInit ==
    /\ ClockInit
    /\ GateFresh
    /\ AlertFresh
    /\ EngineIdle
    /\ CollFresh
    /\ BotFresh
    /\ tasks = [t \in Tasks |-> NotStarted]

AlertTasksNext ==
    \/ \E t \in Tasks, i \in Items, ty \in {UNDERPRICED, TRAP} :
            EnterSendSignal(t, i, ty)
    \/ \E t \in Tasks : DiscordDelivered(t)
    \/ \E t \in Tasks : TelegramDelivered(t)
    \/ \E d \in AlertGaps : TaskIdle(d)

SpecAlertTasks == AlertTasksInit /\ [][AlertTasksNext]_vars

----------------------------------------------------------------------------
(* Concurrent callers of SkinportCollector._rate_limit_wait on one          *)
(* collector.  A call runs in one piece from its entry to its sleep (lines  *)
(* 75-81) and, once the sleep is over, records and returns (line 83).       *)

GateTaskFrame == <<gateLog, alertVars, engVars, collVars, trackerVars, botVars>>

\* the tasks asleep in the gate
Sleepers == {t \in Tasks : tasks[t].pc = "sleeping"}

\* _rate_limit_wait(endpoint) entered at the current time
EnterGate(t, endpoint) ==
    LET wait_time == WaitTime(last_request_time, endpoint, now)
    IN  /\ tasks[t].pc = "start"
        /\ \A u \in 1..(t - 1) : tasks[u].pc # "start"
        /\ IF wait_time > 0
           THEN /\ tasks' = [tasks EXCEPT ![t] =
                                [pc |-> "sleeping", endpoint |-> endpoint,
                                 enter |-> now, wake |-> now + wait_time,
                                 grant |-> -1]]
                /\ UNCHANGED last_request_time
           ELSE /\ tasks' = [tasks EXCEPT ![t] =
                                [pc |-> "granted", endpoint |-> endpoint,
                                 enter |-> now, wake |-> now, grant |-> now]]
                /\ last_request_time' =
                        Put(last_request_time, endpoint, RecordedTime(now, now))
        /\ idled' = FALSE
        /\ UNCHANGED now
        /\ UNCHANGED GateTaskFrame

\* the sleep of a call is over: line 83, then the call returns
WakeGate(t) ==
    /\ tasks[t].pc = "sleeping"
    /\ now = tasks[t].wake
    /\ tasks' = [tasks EXCEPT ![t].pc = "granted", ![t].grant = now]
    /\ last_request_time' = Put(last_request_time, tasks[t].endpoint,
                                RecordedTime(tasks[t].enter, now))
    /\ idled' = FALSE
    /\ UNCHANGED now
    /\ UNCHANGED GateTaskFrame

\* time passes before the next call is entered, no further than the end of
\* the earliest sleep
GateTaskIdle(d) ==
    /\ ~idled
    /\ \E t \in Tasks : tasks[t].pc = "start"
    /\ \A t \in Sleepers : now + d <= tasks[t].wake
    /\ idled' = TRUE
    /\ now' = now + d
    /\ UNCHANGED <<last_request_time, tasks>>
    /\ UNCHANGED GateTaskFrame

\* time passes until the earliest sleep ends
SleepEnds ==
    /\ Sleepers # {}
    /\ \A t \in Sleepers : now < tasks[t].wake
    /\ \E t \in Sleepers :
          /\ \A u \in Sleepers : tasks[t].wake <= tasks[u].wake
          /\ now' = tasks[t].wake
    /\ UNCHANGED <<idled, last_request_time, tasks>>
    /\ UNCHANGED GateTaskFrame

GateTasksInit ==
    /\ ClockInit
    /\ GateFresh
    /\ AlertFresh
    /\ EngineIdle
    /\ CollFresh
    /\ BotFresh
    /\ tasks = [t \in Tasks |-> NotStarted]

GateTasksNext ==
    \/ \E t \in Tasks, e \in Endpoints : EnterGate(t, e)
    \/ \E t \in Tasks : WakeGate(t)
    \/ \E d \in Gaps : GateTaskIdle(d)
    \/ SleepEnds

SpecGateTasks == GateTasksInit /\ [][GateTasksNext]_vars

----------------------------------------------------------------------------
(* The orchestration: TradingBot.initialize, run_loop, collect_and_analyze *)
(* and stop.  Each action is the code between two points where the task    *)
(* of the bot can be observed; stop() runs between them.                   *)

\* number of scans that one run explores
MaxScans == 2

\* config.collector.full_scan_interval_minutes, set by SCAN_INTERVAL: a
\* short interval and the default
ScanIntervals == {10, 60}

\* config.trading.max_item_price: 100.0 euros, in cents
max_item_price == 10000

\* config.collector.min_item_quantity
min_item_quantity == 5

\* config.collector.max_items_per_scan
max_items_per_scan == 10

\* await asyncio.sleep(2) after an analysed item
ITEM_PAUSE == 2

\* await asyncio.sleep(1) after a send_signal
ALERT_PAUSE == 1

\* await asyncio.sleep(60) at the end of an iteration of run_loop
LOOP_SLEEP == 60

\* last_scan = datetime.now() - timedelta(hours=1), in seconds
FIRST_SCAN_BACKDATE == 3600

\* the time at which the date changes during the run: between the first
\* two scans at the default interval
Midnights == {700}

\* the answers that the connection test of initialize meets
StartupResponses ==
    {Response(200, NoHeader, Body("list", Listing)),
     Response(500, NoHeader, NoBody)}

\* the answers of the provider that the scans meet
BotItemsResponses ==
    {Response(200, NoHeader, Body("list", Listing)),
     Response(429, NoHeader, NoBody),
     Response(500, NoHeader, NoBody)}

BotHistoryResponses ==
    {Response(200, NoHeader, Body("dict", <<HistoryLow>>)),
     Response(200, NoHeader, Body("list", <<HistoryLiquid>>)),
     Response(429, NoHeader, NoBody)}

\* SignalType.value
Value(signal_type) ==
    IF signal_type = UNDERPRICED THEN "UNDERPRICED"
    ELSE IF signal_type = MOMENTUM THEN "MOMENTUM"
    ELSE "TRAP"

\* a key that the entry of the listing does not have
Absent == None - 1

\* item.get('min_price', 999): 999 euros, in cents
DEFAULT_PRICE == 99900

\* item.get('quantity', 0)
DEFAULT_QUANTITY == 0

\* dict.get(key, default)
Get(value, default) == IF value = Absent THEN default ELSE value

RECURSIVE filter_items(_, _, _)
\* lines 118-136 with max_items_per_scan = cap: the items under the price
\* cap and with enough stock, in the order of the listing; the item is
\* appended before the length is tested (lines 133-136).  The comparison of
\* a null price or quantity with a number raises TypeError, which leaves
\* the loop and is caught at line 264: no working set then
filter_items(all_items, selected, cap) ==
    IF all_items = << >> THEN [raised |-> FALSE, items |-> selected]
    ELSE LET item == Head(all_items)
             price == Get(item.min_price, DEFAULT_PRICE)
             quantity == Get(item.quantity, DEFAULT_QUANTITY)
         IN  IF price = None
             THEN [raised |-> TRUE, items |-> << >>]
             ELSE IF price > max_item_price
             THEN filter_items(Tail(all_items), selected, cap)
             ELSE IF quantity = None
             THEN [raised |-> TRUE, items |-> << >>]
             ELSE IF quantity < min_item_quantity
             THEN filter_items(Tail(all_items), selected, cap)
             ELSE IF Len(selected) + 1 >= cap
             THEN [raised |-> FALSE, items |-> Append(selected, item)]
             ELSE filter_items(Tail(all_items), Append(selected, item), cap)

\* lines 118-136 with the configuration of the run, on a listing without
\* null values
FilterItems(all_items, selected) ==
    filter_items(all_items, selected, max_items_per_scan).items

\* the requests of a fetch enter the observation of its endpoint
Sent(endpoint, f) ==
    /\ reqLog' = Put(reqLog, endpoint, Logged(endpoint, f.requests).log)
    /\ notBefore' = Put(notBefore, endpoint, Logged(endpoint, f.requests).nb)

\* the locals of collect_and_analyze when no scan is under way
NoScan ==
    /\ filtered_items' = << >>
    /\ idx' = 0
    /\ signals_detected' = << >>
    /\ aidx' = 0

\* TradingBot.initialize: a collector of its own tests the connection
Initialize ==
    /\ pc = "initialize"
    /\ \E r1 \in StartupResponses :
            LET f == get_items(EmptyDict, now, r1, r1)
            IN  /\ now' = f.end
                /\ last_request_time' = f.lrt
                /\ Sent("/items", f)
    /\ pc' = "run_loop"
    /\ UNCHANGED <<last_alerts, loopVars, scanVars, raised>>
    /\ UNCHANGED BotFrame

\* run_loop, lines 290-292
RunLoop ==
    /\ pc = "run_loop"
    /\ running' = TRUE
    /\ last_scan' = now - FIRST_SCAN_BACKDATE
    /\ last_daily_summary' = now
    /\ midnight' \in Midnights
    /\ pc' = "while"
    /\ UNCHANGED <<now, last_request_time, last_alerts, reqLog, notBefore,
                   stats, loopNow, scans, scan_interval, scanVars, raised>>
    /\ UNCHANGED BotFrame

\* a loop that does not read the flag
WhileTrue(flag) == TRUE

\* line 298: while self.running
WhileRunning(flag) == flag

\* lines 298-309: the iteration reads the clock and decides on a scan
LoopTop ==
    /\ pc = "while"
    /\ WhileRunning(running)
    /\ scans < MaxScans
    /\ loopNow' = now
    /\ pc' = IF now - last_scan >= 60 * scan_interval
             THEN "collect_and_analyze" ELSE "summary"
    /\ UNCHANGED <<now, last_request_time, last_alerts, reqLog, notBefore,
                   running, stats, last_scan, last_daily_summary, scans,
                   midnight, scan_interval, scanVars, raised>>
    /\ UNCHANGED BotFrame

\* while self.running: the loop ends once stop() has run
LoopExit ==
    /\ pc = "while"
    /\ ~WhileRunning(running)
    /\ pc' = "stopped"
    /\ UNCHANGED <<now, last_request_time, last_alerts, reqLog, notBefore,
                   loopVars, scanVars, raised>>
    /\ UNCHANGED BotFrame

\* a loop that catches nothing
CaughtNothing(class) == FALSE

\* line 326: except Exception
CaughtByLoop(class) == class = "Exception"

\* an exception of the given class reaches the try of run_loop
Propagate(class) ==
    /\ raised' = Exc(class, CaughtByLoop(class))
    /\ pc' = IF CaughtByLoop(class) THEN "except" ELSE "interrupted"

\* lines 93-145: a session of the database (line 93, outside the try, so
\* that its exception reaches run_loop), a new collector, the listing and
\* its filter
ScanStart ==
    /\ pc = "collect_and_analyze"
    /\ scans' = scans + 1
    /\ \/ /\ Propagate("Exception")
          /\ NoScan
          /\ UNCHANGED <<now, last_request_time, reqLog, notBefore>>
       \/ /\ \E r1 \in BotItemsResponses :
               \E r2 \in IF r1.status = 429 THEN BotItemsResponses \ {r1}
                          ELSE {r1} :
                LET f == get_items(EmptyDict, now, r1, r2)
                    all_items == f.result.items
                    selected == FilterItems(all_items, << >>)
                IN  /\ now' = f.end
                    /\ last_request_time' = f.lrt
                    /\ Sent("/items", f)
                    /\ IF all_items = << >>
                       THEN /\ NoScan
                            /\ pc' = "scanned"
                       ELSE /\ filtered_items' = selected
                            /\ idx' = 1
                            /\ signals_detected' = << >>
                            /\ aidx' = 0
                            /\ pc' = IF selected = << >> THEN "alerts"
                                     ELSE "item"
          /\ UNCHANGED raised
    /\ UNCHANGED <<last_alerts, running, stats, last_scan, last_daily_summary,
                   loopNow, midnight, scan_interval, db_signals, sendLog,
                   procLog>>
    /\ UNCHANGED BotFrame

\* lines 326-329: the exception is logged and the loop pauses
LoopExcept ==
    /\ pc = "except"
    /\ now' = now + LOOP_SLEEP
    /\ pc' = "while"
    /\ UNCHANGED <<last_request_time, last_alerts, reqLog, notBefore, loopVars,
                   scanVars, raised>>
    /\ UNCHANGED BotFrame

\* KeyboardInterrupt or the cancellation of the task, delivered while the
\* iteration pauses (line 324)
Interrupt ==
    /\ pc = "summary"
    /\ Propagate("BaseException")
    /\ UNCHANGED <<now, last_request_time, last_alerts, reqLog, notBefore,
                   loopVars, scanVars>>
    /\ UNCHANGED BotFrame

\* main, lines 376-379: finally: await bot.stop()
MainFinally ==
    /\ pc = "interrupted"
    /\ running' = FALSE
    /\ pc' = "stopped"
    /\ UNCHANGED <<now, last_request_time, last_alerts, reqLog, notBefore,
                   stats, last_scan, last_daily_summary, loopNow, scans,
                   midnight, scan_interval, scanVars, raised>>
    /\ UNCHANGED BotFrame

\* a scan that does not test the history
NoHistoryNever(result) == FALSE

\* line 179: not history, for None and for an empty object
NoHistory(result) == result.kind # "history" \/ result.history.empty

\* line 204: signal.signal_type != 'TRAP', a member of the enumeration
\* compared with a string
NotTrapString(signal_type) == signal_type # "TRAP"

\* what can go wrong with one subject besides its history fetch: nothing,
\* a database write that raises (db.add_item, line 157), or an evaluation
\* that raises on a malformed aggregate (lines 184-201); history.get of
\* line 184 raises by itself on a history that is no object
Faults == {"none", "database", "evaluation"}

\* a loop that takes the subjects from the last to the first
SubjectBackwards(items, i) == items[Len(items) + 1 - i]

\* line 147: for idx, item_data in enumerate(filtered_items, 1)
Subject(items, i) == items[i]

\* a loop that an exception leaves
NextSubjectAbort(i, n, failed) == IF failed THEN n + 1 ELSE i + 1

\* lines 233-237: except Exception ... continue, and the end of the body:
\* the position of the next subject among n, after a subject that failed
\* or not
NextSubject(i, n, failed) == i + 1

\* lines 147-237: one item of the scan, from its history to its signal
ProcessItem ==
    /\ pc = "item"
    /\ LET item_data == Subject(filtered_items, idx)
           item_name == item_data.market_hash_name
       IN  \E fault \in Faults, r \in BotHistoryResponses :
            LET f == get_sales_history(last_request_time, now, r)
                fetched == fault # "database"
                evaluated == fetched /\ ~NoHistory(f.result)
                aggregate == /\ fetched
                             /\ f.result.kind = "history"
                             /\ ~f.result.history.empty
                failed == \/ fault = "database"
                          \/ fault = "evaluation" /\ evaluated
                          \/ evaluated /\ f.result.kind # "history"
                signal == IF evaluated /\ ~failed
                          THEN detect_signals(engine, item_data,
                                              f.result.history)
                          ELSE NoResult
                kept == /\ signal.kind = "signal"
                        /\ NotTrapString(signal.signal_type)
                row == [item_name |-> item_name,
                        signal_type |-> Value(signal.signal_type),
                        alerted |-> FALSE]
                detected == [item_name |-> item_name,
                             signal_type |-> signal.signal_type,
                             id |-> Len(db_signals) + 1]
                finished == IF ~fetched THEN now
                            ELSE IF evaluated /\ ~failed
                            THEN f.end + ITEM_PAUSE
                            ELSE f.end
                next == NextSubject(idx, Len(filtered_items), failed)
            IN  /\ IF fetched
                   THEN /\ last_request_time' = f.lrt
                        /\ Sent("/sales/history", f)
                   ELSE UNCHANGED <<last_request_time, reqLog, notBefore>>
                /\ now' = finished
                /\ db_signals' = IF kept THEN Append(db_signals, row)
                                 ELSE db_signals
                /\ signals_detected' = IF kept
                                       THEN Append(signals_detected, detected)
                                       ELSE signals_detected
                /\ stats' = IF kept
                            THEN [stats EXCEPT !.signals_detected = @ + 1]
                            ELSE stats
                /\ procLog' = Append(procLog,
                                [scan |-> scans, item_name |-> item_name,
                                 position |-> idx, start |-> now,
                                 end |-> finished, running |-> running,
                                 fetched |-> fetched,
                                 aggregate |-> aggregate,
                                 evaluated |-> evaluated,
                                 requested |-> IF fetched
                                               THEN f.requests[1].at ELSE -1,
                                 failed |-> failed])
                /\ idx' = next
                /\ pc' = IF next <= Len(filtered_items) THEN "item"
                         ELSE "alerts"
    /\ UNCHANGED <<last_alerts, running, last_scan, last_daily_summary,
                   loopNow, scans, midnight, scan_interval, filtered_items,
                   aidx, sendLog, raised>>
    /\ UNCHANGED BotFrame

\* lines 240-248 and 261-262: a new AlertManager when there are signals
AlertsStart ==
    /\ pc = "alerts"
    /\ IF signals_detected = << >>
       THEN /\ pc' = "scanned"
            /\ UNCHANGED <<last_alerts, aidx>>
       ELSE /\ last_alerts' = EmptyDict
            /\ aidx' = 1
            /\ pc' = "send"
    /\ UNCHANGED <<now, last_request_time, reqLog, notBefore, loopVars,
                   filtered_items, idx, signals_detected, db_signals, sendLog,
                   procLog, raised>>
    /\ UNCHANGED BotFrame

\* a scan that counts and marks every signal it tried to send
CountedAlways(success) == TRUE

\* line 253: if success, the guard of lines 254-255
Counted(success) == success

\* lines 250-259 with AlertManager.send_signal: one signal of the list
SendSignal ==
    /\ pc = "send"
    /\ LET signal == signals_detected[aidx]
           key == AlertKey(signal.item_name, signal.signal_type)
           gated == ~IsTrapString(signal.signal_type)
           passed == gated /\ ShouldSend(last_alerts, key, now)
       IN  \E discord \in Deliveries, telegram \in Deliveries :
            LET success == passed /\ (discord = "sent" \/ telegram = "sent")
            IN  /\ last_alerts' = IF gated
                                  THEN LedgerAfter(last_alerts, key, now)
                                  ELSE last_alerts
                /\ sendLog' = Append(sendLog,
                                [item_name |-> signal.item_name,
                                 signal_type |-> signal.signal_type,
                                 at |-> now, scan |-> scans, gated |-> gated,
                                 dispatched |-> passed, success |-> success,
                                 id |-> signal.id])
                /\ stats' = IF Counted(success)
                            THEN [stats EXCEPT !.alerts_sent = @ + 1]
                            ELSE stats
                /\ db_signals' = IF Counted(success)
                                 THEN [db_signals EXCEPT
                                         ![signal.id].alerted = TRUE]
                                 ELSE db_signals
    /\ now' = now + ALERT_PAUSE
    /\ aidx' = aidx + 1
    /\ pc' = IF aidx < Len(signals_detected) THEN "send" ELSE "scanned"
    /\ UNCHANGED <<last_request_time, reqLog, notBefore, running, last_scan,
                   last_daily_summary, loopNow, scans, midnight, scan_interval,
                   filtered_items, idx, signals_detected, procLog, raised>>
    /\ UNCHANGED BotFrame

\* collect_and_analyze returns; line 312: last_scan = now
ScanEnd ==
    /\ pc = "scanned"
    /\ last_scan' = loopNow
    /\ NoScan
    /\ pc' = "summary"
    /\ UNCHANGED <<now, last_request_time, last_alerts, reqLog, notBefore,
                   running, stats, last_daily_summary, loopNow, scans,
                   midnight, scan_interval, db_signals, sendLog, procLog,
                   raised>>
    /\ UNCHANGED BotFrame

\* now.date(): the day of a time
Date(t) == IF t >= midnight THEN 1 ELSE 0

\* a summary that resets the count of the detected signals only
ResetDetectedOnly(s) == [s EXCEPT !.signals_detected = 0]

\* send_daily_summary, lines 279-286: the statistics are replaced
Reset(s) == ZeroStats

\* lines 318-324: the daily summary at a change of date, then the pause
LoopTail ==
    /\ pc = "summary"
    /\ IF Date(loopNow) > Date(last_daily_summary)
       THEN /\ stats' = Reset(stats)
            /\ last_daily_summary' = loopNow
       ELSE UNCHANGED <<stats, last_daily_summary>>
    /\ now' = now + LOOP_SLEEP
    /\ pc' = "while"
    /\ UNCHANGED <<last_request_time, last_alerts, reqLog, notBefore, running,
                   last_scan, loopNow, scans, midnight, scan_interval,
                   scanVars, raised>>
    /\ UNCHANGED BotFrame

\* TradingBot.stop, awaited by another task while the loop is running
Stop ==
    /\ running
    /\ running' = FALSE
    /\ UNCHANGED <<pc, now, last_request_time, last_alerts, reqLog, notBefore,
                   stats, last_scan, last_daily_summary, loopNow, scans,
                   midnight, scan_interval, scanVars, raised>>
    /\ UNCHANGED BotFrame

BotInit ==
    /\ ClockInit
    /\ GateFresh
    /\ AlertFresh
    /\ EngineIdle
    /\ CollFresh
    /\ NoTasks
    /\ pc = "initialize"
    /\ running = FALSE
    /\ stats = ZeroStats
    /\ last_scan = 0
    /\ last_daily_summary = 0
    /\ loopNow = 0
    /\ scans = 0
    /\ midnight = 0
    /\ scan_interval \in ScanIntervals
    /\ filtered_items = << >>
    /\ idx = 0
    /\ signals_detected = << >>
    /\ aidx = 0
    /\ db_signals = << >>
    /\ sendLog = << >>
    /\ procLog = << >>
    /\ raised = NoException

BotNext ==
    \/ Initialize
    \/ RunLoop
    \/ LoopTop
    \/ LoopExit
    \/ ScanStart
    \/ ProcessItem
    \/ AlertsStart
    \/ SendSignal
    \/ ScanEnd
    \/ LoopTail
    \/ LoopExcept
    \/ Interrupt
    \/ MainFinally
    \/ Stop

SpecBot == BotInit /\ [][BotNext]_vars

----------------------------------------------------------------------------
(* Claims about the rate gate, checked under SpecGate *)

\* C1: for every endpoint key, any two consecutive calls of the rate gate
\* are granted at least RATE_LIMIT_DELAY apart, the third and later calls
\* included.
C1_ConsecutiveGrantsPaced ==
    \A e \in DOMAIN gateLog :
        gateLog[e].n >= 2 =>
            gateLog[e].last.grant - gateLog[e].prev.grant >= RATE_LIMIT_DELAY

\* C2: when a rate-gate call returns, the recorded last request time of its
\* key is the time the slot was granted (the moment the call returns).
C2_RecordsGrantTime ==
    \A e \in DOMAIN gateLog : last_request_time[e] = gateLog[e].last.grant

\* C3: when the gate is called for a key for the first time at t0 and again
\* at t0 + d with 0 <= d < 45, the second call is granted no earlier than
\* 45 s after the first grant.
C3_SecondCallPaced ==
    \A e \in DOMAIN gateLog :
        (/\ gateLog[e].n = 2
         /\ gateLog[e].last.enter - gateLog[e].prev.enter < RATE_LIMIT_DELAY)
        => gateLog[e].last.grant - gateLog[e].prev.grant >= RATE_LIMIT_DELAY

\* the pacing example: a second call 10 s after the first one has returned,
\* 45 s after the first grant
C3_Witness ==
    \E e \in DOMAIN gateLog :
        /\ gateLog[e].n = 2
        /\ gateLog[e].last.enter = gateLog[e].prev.enter + 10
        /\ gateLog[e].last.grant = gateLog[e].prev.grant + RATE_LIMIT_DELAY

\* the time a logged call of the gate spent asleep
Slept(call) == call.grant - call.enter

\* C24: every call of the rate gate returns after at most one sleep, whose
\* duration is greater than 0 and at most RATE_LIMIT_DELAY; the first call
\* for a key does not sleep.
C24_GateSleepBounded ==
    \A e \in DOMAIN gateLog :
        /\ Slept(gateLog[e].last) >= 0
        /\ Slept(gateLog[e].last) <= RATE_LIMIT_DELAY
        /\ Slept(gateLog[e].prev) >= 0
        /\ Slept(gateLog[e].prev) <= RATE_LIMIT_DELAY
        /\ gateLog[e].n = 1 => Slept(gateLog[e].last) = 0

\* the longest sleep: a call entered at the moment the previous one, which
\* did not sleep, was recorded
C24_Witness ==
    \E e \in DOMAIN gateLog :
        /\ gateLog[e].n >= 2
        /\ Slept(gateLog[e].prev) = 0
        /\ gateLog[e].last.enter = gateLog[e].prev.enter
        /\ Slept(gateLog[e].last) = RATE_LIMIT_DELAY

----------------------------------------------------------------------------
(* Claims about the alert gate, checked under SpecAlert *)

\* C5: any two calls of should_send_alert for the same key that both return
\* true are at least min_alert_interval apart.
C5_TrueCallsApart ==
    \A k \in DOMAIN alertLog :
        \A i, j \in 1..Len(alertLog[k]) :
            (i < j /\ alertLog[k][i].result /\ alertLog[k][j].result)
            => alertLog[k][j].at - alertLog[k][i].at >= min_alert_interval

\* the example: true at t0, false at t0 + 1 s, true at t0 + interval + 1 s
C5_Witness ==
    \E k \in DOMAIN alertLog :
        /\ Len(alertLog[k]) = 3
        /\ alertLog[k][1].result
        /\ alertLog[k][2].at = alertLog[k][1].at + 1
        /\ ~alertLog[k][2].result
        /\ alertLog[k][3].at = alertLog[k][1].at + min_alert_interval + 1
        /\ alertLog[k][3].result

\* C8: should_send_alert returns true if and only if the ledger has no
\* entry for the key or now - lastSent[key] >= min_alert_interval.
C8_SendPolicy ==
    \A k \in DOMAIN alertLog :
        \A i \in 1..Len(alertLog[k]) :
            alertLog[k][i].result <=>
                (\/ ~alertLog[k][i].had
                 \/ alertLog[k][i].at - alertLog[k][i].prev >= min_alert_interval)

\* a call exactly one interval after the recorded alert returns true
C8_Witness ==
    \E k \in DOMAIN alertLog :
        \E i \in 1..Len(alertLog[k]) :
            /\ alertLog[k][i].had
            /\ alertLog[k][i].at - alertLog[k][i].prev = min_alert_interval
            /\ alertLog[k][i].result

----------------------------------------------------------------------------
(* Claims about the signal engine, checked under SpecEngine *)

PriceAvailable == ~Falsy(engIn.item_data.min_price)

LowVolume ==
    /\ ~engIn.history.empty
    /\ engIn.history.volume_24h < engine.min_volume_24h

IsTrapWithZeros(out) ==
    /\ out.kind = "signal"
    /\ out.signal_type = TRAP
    /\ REq(out.z_score, Rat(0, 1))
    /\ REq(out.edge_net, Rat(0, 1))
    /\ REq(out.confidence, Rat(0, 1))

\* C9: whenever a current price is available and the 24-hour volume is below
\* the minimum volume, the evaluation yields the insufficient-volume
\* classification with deviation, edge and confidence 0, and no price alert
\* is produced.
C9_VolumeGatePrecedence ==
    (PriceAvailable /\ LowVolume) =>
        /\ engOut # NotEvaluated => IsTrapWithZeros(engOut)
        /\ trkOut # NotEvaluated => trkOut.kind # "alert"

\* the inputs that pass the price and history guards (steps 1 and 3)
GuardsPass ==
    /\ PriceAvailable
    /\ ~engIn.history.empty
    /\ ~Falsy(engIn.history.median_7d)
    /\ ~Falsy(engIn.history.avg_7d)

\* deviationPct = (median_7d - currentPrice) / median_7d * 100
DeviationPct ==
    Rat(100 * (engIn.history.median_7d - engIn.item_data.min_price),
        engIn.history.median_7d)

\* netEdge = ((median_7d - currentPrice) - median_7d * fee
\*            - median_7d * slippage) / currentPrice * 100
NetEdgePct ==
    Rat(100 * (engIn.history.median_7d - engIn.item_data.min_price)
          - 12 * engIn.history.median_7d - 1 * engIn.history.median_7d,
        engIn.item_data.min_price)

\* C10: the engine classifies an input as UNDERPRICED if and only if
\* deviationPct >= 15, netEdgePct >= the minimum edge and the 24 h volume
\* >= the minimum volume, the boundaries included.
C10_UnderpricedIff ==
    (engOut # NotEvaluated /\ GuardsPass) =>
        ((engOut.kind = "signal" /\ engOut.signal_type = UNDERPRICED)
         <=> (/\ RLe(Rat(15, 1), DeviationPct)
              /\ RLe(Rat(engine.min_edge, 1), NetEdgePct)
              /\ engIn.history.volume_24h >= engine.min_volume_24h))

\* momentumPct = (avg_24h - avg_7d) / avg_7d * 100
MomentumPct ==
    Rat(100 * (engIn.history.avg_24h - engIn.history.avg_7d),
        engIn.history.avg_7d)

\* the MOMENTUM conditions as the specification states them, the threshold
\* included
MomentumHolds ==
    /\ engIn.history.avg_24h # None
    /\ RLe(Rat(MOMENTUM_PCT, 1), MomentumPct)
    /\ 2 * engIn.history.volume_24h >= 3 * engine.min_volume_24h

\* the UNDERPRICED conditions as the specification states them
UnderpricedHolds ==
    /\ RLe(Rat(15, 1), DeviationPct)
    /\ RLe(Rat(engine.min_edge, 1), NetEdgePct)
    /\ engIn.history.volume_24h >= engine.min_volume_24h

IsType(out, ty) == out.kind = "signal" /\ out.signal_type = ty

\* C11: an input that passed the price, volume and history guards and is
\* not UNDERPRICED is classified MOMENTUM if and only if the 24-hour mean
\* exceeds the 7-day mean by at least the momentum threshold (inclusive)
\* and the 24 h volume is >= 1.5 x the minimum volume, and otherwise yields
\* no signal; when both sets of conditions hold the result is UNDERPRICED.
C11_MomentumIff ==
    (engOut # NotEvaluated /\ GuardsPass /\ ~LowVolume) =>
        /\ ~IsType(engOut, UNDERPRICED) =>
                /\ IsType(engOut, MOMENTUM) <=> MomentumHolds
                /\ ~MomentumHolds => engOut = NoResult
        /\ (UnderpricedHolds /\ MomentumHolds) => IsType(engOut, UNDERPRICED)

\* C12: the confidence of every signal is within [0, 100]: at most 95 and
\* equal to min(deviationPct, 95) for UNDERPRICED, at most 90 and equal to
\* min(momentumPct * 5, 90) for MOMENTUM, and 0 for SignalType.TRAP.
C12_ConfidenceClamped ==
    engOut.kind = "signal" =>
        /\ RLe(Rat(0, 1), engOut.confidence)
        /\ RLe(engOut.confidence, Rat(100, 1))
        /\ IsType(engOut, UNDERPRICED) =>
                /\ RLe(engOut.confidence, Rat(95, 1))
                /\ REq(engOut.confidence,
                       IF RLe(DeviationPct, Rat(95, 1)) THEN DeviationPct
                       ELSE Rat(95, 1))
        /\ IsType(engOut, MOMENTUM) =>
                /\ RLe(engOut.confidence, Rat(90, 1))
                /\ REq(engOut.confidence,
                       IF RLe(RTimes(MomentumPct, 5), Rat(90, 1))
                       THEN RTimes(MomentumPct, 5) ELSE Rat(90, 1))
        /\ IsType(engOut, TRAP) => REq(engOut.confidence, Rat(0, 1))

\* an UNDERPRICED signal whose deviation is above the cap
C12_Witness ==
    /\ IsType(engOut, UNDERPRICED)
    /\ RLt(Rat(95, 1), DeviationPct)
    /\ REq(engOut.confidence, Rat(95, 1))

\* C14: no evaluation divides by zero: with an absent or zero 7-day median,
\* 7-day mean or current price, detect_signals and analyze_price return no
\* result before a ratio with that divisor is computed, and neither raises.
C14_NoDivisionByZero ==
    /\ engOut.kind # "raise"
    /\ trkOut.kind # "raise"
    /\ ( /\ engOut # NotEvaluated
         /\ ~engIn.history.empty
         /\ \/ ~PriceAvailable
            \/ /\ ~LowVolume
               /\ \/ Falsy(engIn.history.median_7d)
                  \/ Falsy(engIn.history.avg_7d) )
       => engOut = NoResult
    /\ ( /\ trkOut # NotEvaluated
         /\ ~PriceAvailable \/ Falsy(engIn.history.median_7d) )
       => trkOut = NoResult

\* C15: the net edge of an evaluation is
\* ((median_7d - currentPrice) - median_7d * fee - median_7d * slippage)
\* / currentPrice * 100, the fee and the slippage both subtracted.
C15_NetEdgeFormula ==
    /\ IsType(engOut, UNDERPRICED) => REq(engOut.edge_net, NetEdgePct)
    /\ trkOut.kind = "alert" => REq(trkOut.edge_percent, NetEdgePct)

\* the input of the end-to-end example: currentPrice 26.50, median_7d 32.00,
\* volume_24h 15, minEdge 3 %, minVolume 5, with a 7-day mean available
ExampleInput ==
    /\ engIn.item_data.min_price = 2650
    /\ ~engIn.history.empty
    /\ engIn.history.median_7d = 3200
    /\ engIn.history.volume_24h = 15
    /\ ~Falsy(engIn.history.avg_7d)
    /\ engine.min_edge = 3
    /\ engine.min_volume_24h = 5

\* C16: the example input is classified UNDERPRICED with deviation
\* 17.1875 % (550/3200 = 275/1600) and a confidence equal to that deviation.
C16_ExampleUnderpriced ==
    (ExampleInput /\ engOut # NotEvaluated) =>
        /\ IsType(engOut, UNDERPRICED)
        /\ REq(RTimes(engOut.z_score, 0 - 10), Rat(275, 16))
        /\ REq(engOut.confidence, Rat(275, 16))

C16_Witness ==
    /\ ExampleInput
    /\ IsType(engOut, UNDERPRICED)
    /\ REq(DeviationPct, Rat(550 * 100, 3200))

----------------------------------------------------------------------------
(* Claims about repeated evaluations, checked under SpecReplay *)

\* the fields of a result other than its timestamp
Unstamped(out) ==
    IF out.kind = "signal"
    THEN <<out.signal_type, out.z_score, out.volume_24h, out.edge_net,
           out.spread, out.confidence>>
    ELSE <<out.kind>>

----------------------------------------------------------------------------
(* Claims about the fetch operations, checked under SpecCollector *)

\* C4: after a 429 answer carrying a suggested delay d, no further request
\* to that endpoint (neither a retry nor the next fetch) is sent earlier
\* than d after that answer.
C4_ThrottleDelayRespected ==
    \A e \in DOMAIN reqLog :
        \A i \in 1..Len(reqLog[e]) : reqLog[e][i].at >= reqLog[e][i].notBefore

\* C21: every HTTP request of a fetch operation, the retry after a 429
\* included, is preceded by its own rate-gate grant for its endpoint.
C21_EveryRequestGated ==
    \A e \in DOMAIN reqLog :
        \A i \in 1..Len(reqLog[e]) : reqLog[e][i].gated

\* the last fetch was of the snapshot endpoint and its first answer a 429
SnapshotThrottled ==
    /\ lastFetch.op \in {"get_items", "get_item_price"}
    /\ lastFetch.sent[1].status = 429

\* C22: a snapshot fetch that receives a 429 retries exactly once after the
\* forced wait: it sends two requests in all, returns the data of the retry
\* when the retry is a success and its empty result otherwise.
C22_SnapshotRetriesOnce ==
    SnapshotThrottled =>
        /\ lastFetch.requests = 2
        /\ lastFetch.slept > 0
        /\ lastFetch.sent[2].at = lastFetch.sent[1].at + lastFetch.slept
        /\ IF lastFetch.sent[2].status = 200
              /\ lastFetch.sent[2].body.shape # "invalid"
           THEN lastFetch.result = ItemsResult(lastFetch.sent[2].body.items)
           ELSE lastFetch.result = ItemsResult(<< >>)

\* the last fetch was of the history endpoint and its answer a 429
HistoryThrottled ==
    /\ lastFetch.op \in {"get_sales_history", "tracker.get_sales_history"}
    /\ lastFetch.sent[1].status = 429

\* C23: a history fetch that receives a 429 returns its no-result value at
\* once: no second request, and no suspension of the caller before it
\* returns.
C23_HistoryThrottleReturnsAtOnce ==
    HistoryThrottled =>
        /\ lastFetch.requests = 1
        /\ lastFetch.result = NoResult
        /\ lastFetch.slept = 0

\* the key under which the requests of a fetch operation are observed
LogKey(op) ==
    IF op = "get_items" THEN "/items"
    ELSE IF op = "get_sales_history" THEN "/sales/history"
    ELSE op

\* the last fetch sent the first request of its object to its endpoint
FirstToEndpoint ==
    /\ lastFetch.op # "none"
    /\ Len(reqLog[LogKey(lastFetch.op)]) = lastFetch.requests

\* C25: the rate-limit state is per endpoint: the first request to an
\* endpoint is granted immediately, whatever was granted to the other
\* endpoint before.
C25_PerEndpointState ==
    FirstToEndpoint => lastFetch.sent[1].at = lastFetch.entered

\* the first answer of the last fetch was neither a success nor a 429, or
\* the request or the parsing of its body failed
ErrorAnswer ==
    /\ lastFetch.op # "none"
    /\ \/ lastFetch.sent[1].status \notin {200, 429}
       \/ /\ lastFetch.sent[1].status = 200
          /\ lastFetch.sent[1].body.shape = "invalid"

\* the value a fetch operation returns on an error
ErrorValue(op) == IF op = "get_items" THEN ItemsResult(<< >>) ELSE NoResult

\* C29: on a status other than success or throttle, and on a transport or
\* body-parsing failure, a fetch operation sends no second request, raises
\* nothing to its caller and returns its error value.
C29_ErrorsReturnErrorValue ==
    ErrorAnswer =>
        /\ lastFetch.requests = 1
        /\ ~lastFetch.raised
        /\ lastFetch.slept = 0
        /\ lastFetch.result = ErrorValue(lastFetch.op)

\* a transport failure of get_item_price, after a get_items answered by a
\* status 500
C29_Witness ==
    /\ lastFetch.op = "get_item_price"
    /\ lastFetch.sent[1].status = 0
    /\ lastFetch.result = NoResult
    /\ "/items" \in DOMAIN reqLog
    /\ reqLog["/items"][1].status = 500

\* the last fetch was of the history endpoint and its answer a 200 whose
\* body is JSON
HistorySuccess ==
    /\ lastFetch.op \in {"get_sales_history", "tracker.get_sales_history"}
    /\ lastFetch.sent[1].status = 200
    /\ lastFetch.sent[1].body.shape # "invalid"

\* a JSON value that is a list
IsList(value) == "shape" \in DOMAIN value /\ value.shape = "list"

\* C30: on a 200 the history fetch normalizes the body: a single-element
\* list yields its element, an object yields itself, an empty list or any
\* other shape yields the no-result value; the value handed on is never a
\* list.
C30_HistoryNormalized ==
    HistorySuccess =>
        LET body == lastFetch.sent[1].body
        IN  /\ IF body.shape = "list" /\ Len(body.items) = 1
               THEN lastFetch.result = HistoryResult(body.items[1])
               ELSE IF body.shape = "dict"
               THEN lastFetch.result = HistoryResult(body.items[1])
               ELSE lastFetch.result = NoResult
            /\ lastFetch.result.kind = "history"
               => ~IsList(lastFetch.result.history)

----------------------------------------------------------------------------
(* Claims about the orchestration, checked under SpecBot *)

\* C6: in the scan, a signal that the engine classified SignalType.TRAP is
\* never added to signals_detected, never passed to should_send_alert and
\* never handed to a notification channel.
C6_TrapNeverAlerted ==
    /\ \A i \in 1..Len(signals_detected) :
            signals_detected[i].signal_type # TRAP
    /\ \A i \in 1..Len(sendLog) :
            sendLog[i].signal_type = TRAP =>
                ~sendLog[i].gated /\ ~sendLog[i].dispatched

\* C7: the ledger survives from one scan to the next: over the whole run,
\* two notifications let through for the same (item, signal type) pair are
\* at least min_alert_interval apart.
C7_LedgerSurvivesScans ==
    \A i \in 1..Len(sendLog) :
        \A j \in 1..Len(sendLog) :
            ( /\ i < j
              /\ sendLog[i].item_name = sendLog[j].item_name
              /\ sendLog[i].signal_type = sendLog[j].signal_type
              /\ sendLog[i].dispatched
              /\ sendLog[j].dispatched )
            => sendLog[j].at - sendLog[i].at >= min_alert_interval

\* the subjects processed so far in the scan under way
ScanEntries == SelectSeq(procLog, LAMBDA e : e.scan = scans)

\* C17: an error raised while processing one subject never aborts the scan:
\* it is caught, and every subject that follows in the working set is still
\* processed in the same cycle.
C17_SubjectErrorContained ==
    /\ pc = "item" =>
            /\ idx <= Len(filtered_items)
            /\ Len(ScanEntries) = idx - 1
    /\ pc \in {"alerts", "send"} => Len(ScanEntries) = Len(filtered_items)
    /\ pc \in {"item", "alerts", "send"} =>
            \A k \in 1..Len(ScanEntries) :
                ScanEntries[k].item_name = filtered_items[k].market_hash_name

\* the first subject failed and the history of the second was fetched
C17_Witness ==
    /\ pc = "alerts"
    /\ Len(ScanEntries) = 2
    /\ ScanEntries[1].failed
    /\ ScanEntries[2].fetched
    /\ ~ScanEntries[2].failed

\* C18: once stop() has cleared the running flag during a scan, no further
\* subject of that scan starts being processed, and no new scan cycle
\* begins.
C18_StopBetweenSubjects ==
    [][~running =>
         /\ procLog' = procLog
         /\ ~(pc = "while" /\ pc' = "collect_and_analyze")]_vars

\* C19 as stated: the loop never terminates while the running flag is set.
C19_EndsOnlyWhenFlagCleared ==
    pc \in {"interrupted", "stopped"} => ~running

\* C19, amended: no exception of class Exception ends the loop, it is
\* caught and the loop goes on; the loop ends only when the running flag
\* has been cleared or when an interrupt (KeyboardInterrupt, cancellation)
\* ends the task with the flag still set.
C19_EndsOnlyOnCancellation ==
    /\ pc \in {"interrupted", "stopped"} =>
            \/ ~running
            \/ raised = Exc("BaseException", FALSE)
    /\ raised.class = "Exception" => raised.caught
    /\ pc = "except" => raised = Exc("Exception", TRUE)

\* a scan raised, the loop paused and has begun its next scan
C19_Witness ==
    /\ raised = Exc("Exception", TRUE)
    /\ pc = "collect_and_analyze"
    /\ running
    /\ scans = 1

\* the position of an item in the listing
ListingPos(name) ==
    CHOOSE i \in 1..Len(Listing) : Listing[i].market_hash_name = name

\* C20: within one scan the subjects are processed one after the other in
\* the order of the working set, which is the order of the listing; the
\* alerts go to the gate in that order; the history fetch of a subject
\* never starts before the processing of the previous one has finished.
C20_SequentialInOrder ==
    /\ \A k \in 1..(Len(filtered_items) - 1) :
            ListingPos(filtered_items[k].market_hash_name)
                < ListingPos(filtered_items[k + 1].market_hash_name)
    /\ \A k \in 1..Len(procLog) : procLog[k].start <= procLog[k].end
    /\ \A k \in 1..(Len(procLog) - 1) :
            procLog[k].scan = procLog[k + 1].scan =>
                /\ ListingPos(procLog[k].item_name)
                       < ListingPos(procLog[k + 1].item_name)
                /\ procLog[k].end <= procLog[k + 1].start
                /\ procLog[k + 1].fetched =>
                       procLog[k].end <= procLog[k + 1].requested
    /\ \A k \in 1..(Len(sendLog) - 1) :
            sendLog[k].scan = sendLog[k + 1].scan =>
                /\ ListingPos(sendLog[k].item_name)
                       < ListingPos(sendLog[k + 1].item_name)
                /\ sendLog[k].at <= sendLog[k + 1].at

\* a scan that processed two subjects and sent an alert for each
C20_Witness ==
    /\ Len(procLog) >= 2
    /\ procLog[1].scan = procLog[2].scan
    /\ procLog[2].fetched
    /\ Len(sendLog) >= 2
    /\ sendLog[1].scan = sendLog[2].scan
    /\ sendLog[1].dispatched
    /\ sendLog[2].dispatched

\* two entries of sendLog for the same (item, signal type) key
SameKey(a, b) ==
    /\ a.item_name = b.item_name
    /\ a.signal_type = b.signal_type

\* C26: a failed delivery still consumes the anti-spam window: after a
\* send_signal that passed the gate and whose deliveries all failed, the
\* ledger holds the time of that attempt for the whole interval, and a
\* send_signal for the same key within min_alert_interval is suppressed
\* without a delivery attempt.
C26_FailedDeliveryConsumesWindow ==
    \A i \in 1..Len(sendLog) :
        (sendLog[i].dispatched /\ ~sendLog[i].success) =>
            /\ \A j \in (i + 1)..Len(sendLog) :
                    ( /\ SameKey(sendLog[i], sendLog[j])
                      /\ sendLog[j].at - sendLog[i].at < min_alert_interval )
                    => ~sendLog[j].dispatched
            /\ now - sendLog[i].at < min_alert_interval
               => LET key == AlertKey(sendLog[i].item_name,
                                      sendLog[i].signal_type)
                  IN  /\ key \in DOMAIN last_alerts
                      /\ last_alerts[key] = sendLog[i].at

\* a delivery that failed on every channel, and the same signal suppressed
\* one second before the interval has elapsed
C26_Witness ==
    \E i, j \in 1..Len(sendLog) :
        /\ i < j
        /\ SameKey(sendLog[i], sendLog[j])
        /\ sendLog[i].dispatched
        /\ ~sendLog[i].success
        /\ sendLog[j].gated
        /\ sendLog[j].at - sendLog[i].at = min_alert_interval - 1
        /\ ~sendLog[j].dispatched

----------------------------------------------------------------------------
(* Claims about concurrent callers, checked under SpecAlertTasks *)

\* a task that has called should_send_alert and was let through
Passed(t) == tasks[t].pc # "start" /\ tasks[t].passed

\* C27: of the concurrent send_signal tasks for the same key that reach the
\* gate within min_alert_interval of each other, at most one is let through
\* and attempts a delivery.
C27_GateAtomic ==
    \A t, u \in Tasks :
        ( /\ t # u
          /\ Passed(t)
          /\ Passed(u)
          /\ tasks[t].key = tasks[u].key
          /\ tasks[t].at <= tasks[u].at )
        => tasks[u].at - tasks[t].at >= min_alert_interval

\* three tasks for one key: the second reaches the gate while the first
\* still awaits its Discord delivery and is suppressed, the third, one
\* interval after the first, is let through
C27_Witness ==
    \E t, u, v \in Tasks :
        /\ tasks[t].pc = "discord"
        /\ tasks[u].pc = "done"
        /\ tasks[v].pc = "discord"
        /\ tasks[u].key = tasks[t].key
        /\ tasks[v].key = tasks[t].key
        /\ tasks[u].at = tasks[t].at
        /\ ~tasks[u].passed
        /\ tasks[v].at = tasks[t].at + min_alert_interval

----------------------------------------------------------------------------
(* Claims about concurrent callers, checked under SpecGateTasks *)

\* task u entered the gate for the endpoint of task t after t (tasks enter
\* in the order of their numbers) and while t was asleep in it, and both
\* have been granted
EnteredWhileWaiting(t, u) ==
    /\ t < u
    /\ tasks[t].pc = "granted"
    /\ tasks[u].pc = "granted"
    /\ tasks[t].endpoint = tasks[u].endpoint
    /\ tasks[t].enter <= tasks[u].enter
    /\ tasks[u].enter < tasks[t].grant

\* C28: concurrent callers of the rate gate serialize: when a second caller
\* enters for the same key while the first is still waiting, their grants
\* are at least RATE_LIMIT_DELAY apart.
C28_ConcurrentCallersSerialize ==
    \A t, u \in Tasks :
        EnteredWhileWaiting(t, u) =>
            tasks[u].grant - tasks[t].grant >= RATE_LIMIT_DELAY

----------------------------------------------------------------------------
(* One SkinportCollector and one AlertManager used in turn by a single      *)
(* sequential caller: the calls of the rate gate and of the alert gate on   *)
(* the same two instances, with pauses in between.                          *)

\* number of calls of the two gates that one run explores
MaxInstanceCalls == 5

\* the calls made so far on the two instances
InstanceCalls == TotalCalls(gateLog) + AlertCalls(alertLog)

\* pauses of the caller: short, the delay of the rate gate, the interval of
\* the alert gate
InstanceGaps == {2, RATE_LIMIT_DELAY, min_alert_interval}

\* the caller does something else for d seconds
InstanceIdle(d) ==
    /\ ~idled
    /\ InstanceCalls < MaxInstanceCalls
    /\ idled' = TRUE
    /\ now' = now + d
    /\ UNCHANGED <<gateVars, alertVars, sendLog>>
    /\ UNCHANGED AlertFrame

InstancesInit ==
    /\ ClockInit
    /\ GateFresh
    /\ AlertFresh
    /\ EngineIdle
    /\ CollFresh
    /\ NoTasks
    /\ BotFresh

InstancesNext ==
    \/ /\ InstanceCalls < MaxInstanceCalls
       /\ \E e \in Endpoints : RateLimitWait(e)
    \/ /\ InstanceCalls < MaxInstanceCalls
       /\ \E ty \in {UNDERPRICED, MOMENTUM} : ShouldSendAlert("AWP", ty)
    \/ \E d \in InstanceGaps : InstanceIdle(d)

SpecInstances == InstancesInit /\ [][InstancesNext]_vars

----------------------------------------------------------------------------
(* Claims about the two maps, checked under SpecInstances *)

\* every key of map d is a key of map e with a time that is not smaller
Extends(e, d) ==
    \A k \in DOMAIN d : k \in DOMAIN e /\ e[k] >= d[k]

----------------------------------------------------------------------------
(* Claims about the effect of one call of the alert gate, checked under    *)
(* SpecAlert                                                               *)

\* the number of calls of should_send_alert observed for a key
CallsOn(log, key) == IF key \in DOMAIN log THEN Len(log[key]) ELSE 0

\* maps d and e agree outside key: the same other keys with the same times
SameElsewhere(d, e, key) ==
    /\ DOMAIN d \ {key} = DOMAIN e \ {key}
    /\ \A k \in DOMAIN d \ {key} : e[k] = d[k]

\* C32: should_send_alert changes the ledger only on a true result and only
\* for the evaluated key: a call that returns False leaves every entry as it
\* was, a call that returns True sets the entry of its key to now and leaves
\* the entries of the other keys as they were.
C32_LedgerFrame ==
    [][ \A key \in DOMAIN alertLog' :
            CallsOn(alertLog', key) > CallsOn(alertLog, key) =>
                LET call == alertLog'[key][Len(alertLog'[key])]
                IN  IF call.result
                    THEN /\ key \in DOMAIN last_alerts'
                         /\ last_alerts'[key] = now
                         /\ SameElsewhere(last_alerts, last_alerts', key)
                    ELSE last_alerts' = last_alerts ]_vars

\* a suppressed call on a key, 1799 s after the call that was let through,
\* whose entry still holds the time of the first call, then a call on
\* another key that was let through
C32_Witness ==
    \E key, other \in DOMAIN alertLog :
        /\ other # key
        /\ Len(alertLog[key]) = 2
        /\ alertLog[key][1].result
        /\ ~alertLog[key][2].result
        /\ alertLog[key][2].at = alertLog[key][1].at + min_alert_interval - 1
        /\ alertLog[other][1].result
        /\ alertLog[other][1].at >= alertLog[key][2].at
        /\ key \in DOMAIN last_alerts
        /\ last_alerts[key] = alertLog[key][1].at
        /\ other \in DOMAIN last_alerts
        /\ last_alerts[other] = alertLog[other][1].at

----------------------------------------------------------------------------
(* AlertManager.send_signal with its channels: a manager configured with   *)
(* none, one or both of Discord and Telegram, called by one sequential     *)
(* caller.  The record of a call holds what the call did.                  *)

Channels == {"discord", "telegram"}

\* what the await of a notifier's send_signal gives: True, False, or an
\* exception
Outcomes == {"sent", "failed", "raised"}

\* the channel was not attempted
NotAttempted == "none"

\* a send_signal that an exception of the first channel leaves
ContinuesUnlessRaised(outcome) == outcome # "raised"

\* lines 296-300: try ... except Exception around the Discord delivery, so
\* that the statements that follow it run whatever its outcome
Continues(outcome) == TRUE

\* lines 280-310 at time t on a manager with ledger la and the configured
\* channels, the deliveries giving discord and telegram: the number of gate
\* checks, whether the gate let the signal through, the channels attempted
\* in order, the result and the ledger afterwards
send_signal(la, item_name, signal_type, t, configured, discord, telegram) ==
    LET key == AlertKey(item_name, signal_type)
    IN  IF IsTrapString(signal_type)
        THEN [checks |-> 0, passed |-> FALSE, attempts |-> << >>,
              result |-> FALSE, ledger |-> la]
        ELSE IF ~ShouldSend(la, key, t)
        THEN [checks |-> 1, passed |-> FALSE, attempts |-> << >>,
              result |-> FALSE, ledger |-> LedgerAfter(la, key, t)]
        ELSE LET first == "discord" \in configured
                 second == /\ "telegram" \in configured
                           /\ first => Continues(discord)
                 success1 == first /\ discord = "sent"
                 success2 == success1 \/ (second /\ telegram = "sent")
             IN  [checks |-> 1, passed |-> TRUE,
                  attempts |-> (IF first THEN <<"discord">> ELSE << >>)
                               \o (IF second THEN <<"telegram">> ELSE << >>),
                  result |-> IF first /\ ~Continues(discord) THEN FALSE
                             ELSE success2,
                  ledger |-> LedgerAfter(la, key, t)]

\* the channels of the manager: chosen at its construction, the same in
\* every call
Configured(log) == IF log = << >> THEN SUBSET Channels
                   ELSE {log[1].configured}

\* one call of send_signal(signal) on the manager
ChannelSendSignal(item_name, signal_type) ==
    /\ Len(sendLog) < MaxAlertCalls
    /\ \E configured \in Configured(sendLog) :
        \E discord \in IF "discord" \in configured THEN Outcomes
                       ELSE {NotAttempted},
           telegram \in IF "telegram" \in configured THEN Outcomes
                        ELSE {NotAttempted} :
            LET call == send_signal(last_alerts, item_name, signal_type, now,
                                    configured, discord, telegram)
                tried(ch) == \E i \in 1..Len(call.attempts) :
                                call.attempts[i] = ch
            IN  /\ last_alerts' = call.ledger
                /\ sendLog' = Append(sendLog,
                     [item_name |-> item_name, signal_type |-> signal_type,
                      at |-> now, configured |-> configured,
                      checks |-> call.checks, passed |-> call.passed,
                      attempts |-> call.attempts,
                      discord |-> IF tried("discord") THEN discord
                                  ELSE NotAttempted,
                      telegram |-> IF tried("telegram") THEN telegram
                                   ELSE NotAttempted,
                      result |-> call.result])
    /\ idled' = FALSE
    /\ UNCHANGED <<now, alertLog>>
    /\ UNCHANGED AlertFrame

\* time passes between two calls
ChannelsIdle(d) ==
    /\ ~idled
    /\ Len(sendLog) < MaxAlertCalls
    /\ idled' = TRUE
    /\ now' = now + d
    /\ UNCHANGED <<alertVars, sendLog>>
    /\ UNCHANGED AlertFrame

ChannelsInit ==
    /\ ClockInit
    /\ GateFresh
    /\ AlertFresh
    /\ EngineIdle
    /\ CollFresh
    /\ NoTasks
    /\ BotFresh

ChannelsNext ==
    \/ \E ty \in {UNDERPRICED, TRAP} : ChannelSendSignal("AWP", ty)
    \/ \E d \in {1, min_alert_interval} : ChannelsIdle(d)

SpecChannels == ChannelsInit /\ [][ChannelsNext]_vars

----------------------------------------------------------------------------
(* Claims about the channels, checked under SpecChannels *)

\* the number of attempts on a channel in one call
Attempts(call, ch) ==
    Cardinality({i \in 1..Len(call.attempts) : call.attempts[i] = ch})

\* a channel reported success in the call
Reported(call, ch) ==
    (ch = "discord" /\ call.discord = "sent")
    \/ (ch = "telegram" /\ call.telegram = "sent")

----------------------------------------------------------------------------
(* Claims about a whole run of the bot, checked under SpecBot *)

\* C34: over a whole run of TradingBot, initialize and then the scans of
\* run_loop, any two requests sent to /items are at least RATE_LIMIT_DELAY
\* apart.
C34_SnapshotRequestsPaced ==
    "/items" \in DOMAIN reqLog =>
        \A i, j \in 1..Len(reqLog["/items"]) :
            i < j => reqLog["/items"][j].at - reqLog["/items"][i].at
                        >= RATE_LIMIT_DELAY

----------------------------------------------------------------------------
(* The filter of collect_and_analyze as a function of the listing and of   *)
(* MAX_ITEMS_PER_SCAN, which Config reads with int() and does not validate *)

\* length of the listings that the filter is applied to
MaxListing == 3

\* entries of a listing: two that pass, one too expensive, one too scarce,
\* one without the min_price key, one whose price is null
Entries ==
    {[market_hash_name |-> "AK-47", min_price |-> 1680, quantity |-> 50],
     [market_hash_name |-> "AWP", min_price |-> 2650, quantity |-> 10],
     [market_hash_name |-> "M9 Bayonet", min_price |-> 40000, quantity |-> 20],
     [market_hash_name |-> "Glock-18", min_price |-> 500, quantity |-> 3],
     [market_hash_name |-> "M4A4", min_price |-> Absent, quantity |-> 9],
     [market_hash_name |-> "USP-S", min_price |-> None, quantity |-> 0]}

Listings == UNION {[1..n -> Entries] : n \in 0..MaxListing}

\* values of MAX_ITEMS_PER_SCAN
Caps == {0, 1, 2, max_items_per_scan}

\* lines 111-138 of one scan: the listing is fetched and filtered
ApplyFilter ==
    /\ procLog = << >>
    /\ \E all_items \in Listings, cap \in Caps :
          LET filtered == filter_items(all_items, << >>, cap)
          IN  /\ filtered_items' = filtered.items
              /\ procLog' = <<[all_items |-> all_items, cap |-> cap,
                               raised |-> filtered.raised,
                               selected |-> filtered.items]>>
    /\ UNCHANGED <<now, last_request_time, last_alerts, reqLog, notBefore,
                   pc, raised, loopVars, idx, signals_detected, aidx,
                   db_signals, sendLog>>
    /\ UNCHANGED BotFrame

FilterInit ==
    /\ ClockInit
    /\ GateFresh
    /\ AlertFresh
    /\ EngineIdle
    /\ CollFresh
    /\ NoTasks
    /\ BotFresh

FilterNext == ApplyFilter

SpecFilter == FilterInit /\ [][FilterNext]_vars

----------------------------------------------------------------------------
(* Claims about the filter, checked under SpecFilter *)

RECURSIVE IsSubsequence(_, _)
\* s is t with some elements left out, the others in their order
IsSubsequence(s, t) ==
    IF s = << >> THEN TRUE
    ELSE IF t = << >> THEN FALSE
    ELSE IF Head(s) = Head(t) THEN IsSubsequence(Tail(s), Tail(t))
    ELSE IsSubsequence(s, Tail(t))

\* the entry passes the two filters of lines 121 and 125
PassesFilters(item) ==
    /\ item.min_price # Absent
    /\ item.min_price # None
    /\ item.min_price <= max_item_price
    /\ item.quantity >= min_item_quantity

\* C35: the working set built from the listing has at most
\* max_items_per_scan items, is an order-preserving subsequence of the
\* listing, and each of its members has min_price <= max_item_price and
\* quantity >= min_item_quantity, so that an entry that fails a filter is
\* never analysed.
C35_WorkingSetFiltered ==
    \A i \in 1..Len(procLog) :
        LET run == procLog[i]
        IN  /\ Len(run.selected) <= run.cap
            /\ IsSubsequence(run.selected, run.all_items)
            /\ \A k \in 1..Len(run.selected) : PassesFilters(run.selected[k])

\* the step is a return of send_signal for the stored signal id
SendReturned(id) ==
    /\ Len(sendLog') = Len(sendLog) + 1
    /\ sendLog'[Len(sendLog')].id = id

\* the stored signal id is marked in this step
NewlyAlerted(id) ==
    /\ id \in 1..Len(db_signals')
    /\ db_signals'[id].alerted
    /\ id \in 1..Len(db_signals) => ~db_signals[id].alerted

\* C36: a stored signal is marked as alerted, and alerts_sent is
\* incremented, only when send_signal returned true for it, the gate having
\* let it through; after a send_signal that returned false the signal is
\* unmarked and the counter is what it was.
C36_MarkedOnlyOnSuccess ==
    [][ /\ \A id \in 1..Len(db_signals') :
              NewlyAlerted(id) =>
                  /\ SendReturned(id)
                  /\ sendLog'[Len(sendLog')].success
                  /\ sendLog'[Len(sendLog')].dispatched
        /\ stats'.alerts_sent > stats.alerts_sent =>
              /\ Len(sendLog') = Len(sendLog) + 1
              /\ sendLog'[Len(sendLog')].success
              /\ stats'.alerts_sent = stats.alerts_sent + 1
        /\ \A id \in 1..Len(db_signals') :
              SendReturned(id) /\ ~sendLog'[Len(sendLog')].success =>
                  /\ ~db_signals'[id].alerted
                  /\ stats'.alerts_sent = stats.alerts_sent ]_vars

\* a scan with two signals: the deliveries of the first all failed and it
\* is unmarked, the second was delivered and is marked, one alert counted
C36_Witness ==
    /\ Len(sendLog) = 2
    /\ sendLog[1].scan = sendLog[2].scan
    /\ sendLog[1].dispatched
    /\ ~sendLog[1].success
    /\ sendLog[2].success
    /\ ~db_signals[sendLog[1].id].alerted
    /\ db_signals[sendLog[2].id].alerted
    /\ stats.signals_detected = 2
    /\ stats.alerts_sent = 1

\* C37: in every reachable state of TradingBot the statistics satisfy
\* 0 <= alerts_sent <= signals_detected, across the scans, the failed
\* deliveries, the subjects that fail and the resets of the daily summary.
C37_AlertsWithinSignals ==
    /\ 0 <= stats.alerts_sent
    /\ stats.alerts_sent <= stats.signals_detected

\* a subject of the first scan failed and a signal of that scan was
\* delivered; the daily summary then reset the statistics; in the second
\* scan two signals were detected, one was delivered and one was not
C37_Witness ==
    /\ last_daily_summary > 0
    /\ scans = 2
    /\ \E i \in 1..Len(procLog) : procLog[i].scan = 1 /\ procLog[i].failed
    /\ \E i \in 1..Len(sendLog) : sendLog[i].scan = 1 /\ sendLog[i].success
    /\ \E i \in 1..Len(sendLog) : sendLog[i].scan = 2 /\ ~sendLog[i].success
    /\ stats.signals_detected = 2
    /\ stats.alerts_sent = 1

----------------------------------------------------------------------------
(* The run of the bot under the scheduling of asyncio: the task of the bot *)
(* is the only one that is always ready, every fetch, delivery and sleep   *)
(* it awaits completes, so a step of the task that is possible is          *)
(* eventually taken.  stop() and the interrupt come from outside and may   *)
(* never happen.                                                           *)

\* the steps of the task that runs initialize, run_loop and the finally
\* clause of main
TaskStep ==
    \/ Initialize
    \/ RunLoop
    \/ LoopTop
    \/ LoopExit
    \/ ScanStart
    \/ ProcessItem
    \/ AlertsStart
    \/ SendSignal
    \/ ScanEnd
    \/ LoopTail
    \/ LoopExcept
    \/ MainFinally

\* the run with SCAN_INTERVAL=10: the second scan is due ten minutes after
\* the first
BotFairInit ==
    /\ BotInit
    /\ scan_interval = 10

SpecBotFair == BotFairInit /\ [][BotNext]_vars /\ WF_vars(TaskStep)

\* stop() has cleared the flag while run_loop was running
StopRequested ==
    /\ ~running
    /\ pc \notin {"initialize", "run_loop", "stopped"}

\* C38: after stop() has cleared the running flag, run_loop eventually
\* terminates, the scan and the sleep in progress being completed, and no
\* iteration decides on a new scan in the meantime.
C38_StopTerminates ==
    /\ StopRequested ~> (pc = "stopped")
    /\ [][pc = "while" /\ pc' = "collect_and_analyze" => running]_vars

\* stop() came during the first subject of a scan of two: the scan went on
\* to its second subject and its alerts, and the loop has ended at its next
\* test of the flag, after one scan
C38_Witness ==
    /\ pc = "stopped"
    /\ raised = NoException
    /\ scans = 1
    /\ Len(sendLog) >= 1
    /\ \E i \in 1..Len(procLog) :
          /\ procLog[i].position = 2
          /\ ~procLog[i].running

\* the step is the scan's handling of one subject
SubjectHandled == Len(procLog') = Len(procLog) + 1

\* C39: when the history fetch of a subject yields no aggregate, no signal
\* is evaluated, stored or alerted for that subject in this cycle, and the
\* scan proceeds to the next subject.
C39_NoAggregateSkipsSubject ==
    [][ /\ SubjectHandled =>
              LET subject == procLog'[Len(procLog')]
              IN  subject.fetched /\ ~subject.aggregate =>
                      /\ ~subject.evaluated
                      /\ ~subject.failed
                      /\ db_signals' = db_signals
                      /\ signals_detected' = signals_detected
                      /\ stats' = stats
                      /\ idx' = idx + 1
                      /\ pc' = IF idx < Len(filtered_items) THEN "item"
                               ELSE "alerts"
        /\ \A k \in 1..Len(sendLog'), i \in 1..Len(procLog') :
              ( /\ sendLog'[k].scan = procLog'[i].scan
                /\ sendLog'[k].item_name = procLog'[i].item_name )
              => procLog'[i].aggregate ]_vars

\* the history of the first subject of a scan was throttled: nothing was
\* stored for it, the second subject was analysed after it, and the only
\* signal and the only alert of the scan are for the second subject
C39_Witness ==
    /\ Len(procLog) = 2
    /\ procLog[1].scan = 1
    /\ procLog[1].position = 1
    /\ procLog[1].fetched
    /\ ~procLog[1].aggregate
    /\ procLog[2].scan = 1
    /\ procLog[2].position = 2
    /\ procLog[2].aggregate
    /\ Len(db_signals) = 1
    /\ db_signals[1].item_name = procLog[2].item_name
    /\ Len(sendLog) = 1
    /\ sendLog[1].item_name = procLog[2].item_name

====
